---- MODULE Spec2Model ----
(***************************************************************************)
(* Model of the firecrawl plugin of shiedot/eliza: the CRAWL_VISION action *)
(* handler (connectivity probe, sequential fallback over three hardcoded   *)
(* marketplaces, reply) and processListings (regex price extraction and    *)
(* floor comparison).  Two versions of crawlVisionAction exist in the      *)
(* repository: one reads the body with response.text() + JSON.parse, the   *)
(* other with response.json().  The variable version selects the one run.  *)
(***************************************************************************)
EXTENDS Integers, Sequences, FiniteSets, TLC

VARIABLES
    version,        \* "text_parse" (response.text()+JSON.parse) or "json" (response.json())
    pc,             \* position of the handler invocation
    requests,       \* outbound scrape requests issued so far, in order: 0 = probe, i = marketplaces[i]
    responses,      \* what each per-target request returned, in order
    probe,          \* outcome of the connectivity probe request
    successfulData, \* handler local: the winning response, or NoData
    lastError,      \* handler local: the last recorded per-target error, or NoError
    replies,        \* callback invocations, in order
    ret,            \* handler's return value
    rawListing,     \* processListings on one listing: the input
    processed,      \* ... its result, once done
    npc,            \* ... its position
    runs,           \* repeated normalization of rawListing: one entry per run
    invocations,    \* concurrent CRAWL_VISION invocations: the locals and inputs of each
    store,          \* runFirecrawl: the rows of the domainListing table
    rpc,            \* runFirecrawl: position of the current run
    client,         \* runFirecrawl: the PrismaClient of the current run
    result,         \* runFirecrawl: what the current run returned
    calls,          \* runFirecrawl: network and database calls of the current run, in order
    finished,       \* runFirecrawl: results of the completed runs
    action,         \* ENS_API_LOOKUP / TEST_CRAWL_VISION: the action invoked
    messageText,    \* ... message.content.text
    apc,            \* ... position of the invocation
    outbound,       \* ... outbound requests issued, with what came back
    answers,        \* ... callback invocations
    aret,           \* ... return value
    srv,            \* HTTP server: "starting", "listening" or "exited"
    exitCode,       \* HTTP server: the code process.exit was called with
    runtime,        \* HTTP server: elizaRuntime, "unset", "created" or "initialized"
    endpoint,       \* HTTP server: the endpoint of the request being handled
    reqBody,        \* ... req.body
    available,      \* ... the services elizaRuntime.getService finds
    epc,            \* ... position of the endpoint handler
    deals,          \* ... /api/analyze-deals: the deals still to go through
    results,        \* ... /api/analyze-deals: the handler's results array
    serviceCalls,   \* ... calls of service methods, in order, with how each ended
    res,            \* ... the response sent
    isLoading,      \* FirecrawlButton: the isLoading state
    disabled,       \* FirecrawlButton: the disabled prop as last rendered
    inflight,       \* FirecrawlButton: requests started and not yet settled
    toasts,         \* FirecrawlButton: toasts shown, in order
    clicks          \* FirecrawlButton: clicks that reached handleFirecrawl

hvars == <<version, pc, requests, responses, probe, successfulData, lastError, replies, ret>>
nvars == <<rawListing, processed, npc>>
tvars == <<runs>>
cvars == <<invocations>>
rvars == <<store, rpc, client, result, calls, finished>>
avars == <<action, messageText, apc, outbound, answers, aret>>
svars == <<srv, exitCode, runtime, endpoint, reqBody, available, epc, deals, results, serviceCalls, res>>
bvars == <<isLoading, disabled, inflight, toasts, clicks>>
\* the variables of the specifications other than Spec and SpecNorm
ovars == <<tvars, cvars, rvars, avars, svars, bvars>>
vars == <<version, pc, requests, responses, probe, successfulData, lastError, replies, ret,
          rawListing, processed, npc, runs, invocations, store, rpc, client, result, calls,
          finished, action, messageText, apc, outbound, answers, aret,
          srv, exitCode, runtime, endpoint, reqBody, available, epc, deals, results, serviceCalls, res,
          isLoading, disabled, inflight, toasts, clicks>>

----------------------------------------------------------------------------
(* Bounds *)

\* longest enumerated price / floorPrice text
MaxLen == 3
\* longest listings array of a response
MaxListings == 2
\* clock readings 1..MaxClock
MaxClock == 2
\* normalizations of one raw listing
MaxRuns == 2
\* successive calls of runFirecrawl
MaxCalls == 2
\* length of a message text
MaxMsgLen == 5
\* clicks on the Firecrawl button
MaxClicks == 4
\* deals getDealsBelowFloor returns
MaxDeals == 2

(* Program constants *)

\* the three hardcoded marketplaces
NumMarketplaces == 3

----------------------------------------------------------------------------
(* JavaScript values *)

Undefined == [t |-> "undefined"]
JNull == [t |-> "null"]
JString(s) == [t |-> "string", s |-> s]
\* a price is a multiple of 10^-FracWidth: n counts those units
JNumber(n) == [t |-> "number", n |-> n]

Versions == {"text_parse", "json"}

Digits == {"0", "1", "2", "3", "4", "5", "6", "7", "8", "9"}
\* the characters of the enumerated texts: two digits, the point, a unit letter
Chars == {"0", "1", ".", "E"}

DigitVal(c) ==
    CASE c = "0" -> 0 [] c = "1" -> 1 [] c = "2" -> 2 [] c = "3" -> 3 [] c = "4" -> 4
      [] c = "5" -> 5 [] c = "6" -> 6 [] c = "7" -> 7 [] c = "8" -> 8 [] c = "9" -> 9

\* number of decimal places a number is kept to: no text here has more (a fraction of an
\* enumerated text has at most MaxLen - 2 digits, the one of "2.5 ETH" has one)
FracWidth == MaxLen - 1

Pow10(k) == 10 ^ k

\* the spec's examples, "2.5 ETH" and "ETH"
Text25ETH == <<"2", ".", "5", " ", "E", "T", "H">>
TextETH == <<"E", "T", "H">>

BoundedTexts == UNION {[1..n -> Chars] : n \in 0..MaxLen}
Texts == BoundedTexts \cup {Text25ETH, TextETH}

----------------------------------------------------------------------------
(* /(\d+(?:\.\d+)?)/ and parseFloat *)

RECURSIVE FirstDigit(_, _)
\* the regex engine tries each start position from the left: the first that holds a digit
FirstDigit(s, i) ==
    IF i > Len(s) THEN 0
    ELSE IF s[i] \in Digits THEN i
    ELSE FirstDigit(s, i + 1)

RECURSIVE DigitRunEnd(_, _)
\* \d+ is greedy: from a digit at i, the last index of the run of digits
DigitRunEnd(s, i) ==
    IF i + 1 <= Len(s) /\ s[i + 1] \in Digits THEN DigitRunEnd(s, i + 1) ELSE i

\* mutant: the pattern without its optional fraction group, /(\d+)/
RegexMatchNoFraction(s) ==
    LET i == FirstDigit(s, 1)
    IN  IF i = 0 THEN <<>> ELSE SubSeq(s, i, DigitRunEnd(s, i))

\* text.match(/(\d+(?:\.\d+)?)/)[1], or <<>> for a null match
RegexMatch(s) ==
    LET i == FirstDigit(s, 1)
    IN  IF i = 0 THEN <<>>
        ELSE LET j == DigitRunEnd(s, i)
                 frac == j + 2 <= Len(s) /\ s[j + 1] = "." /\ s[j + 2] \in Digits
                 k == IF frac THEN DigitRunEnd(s, j + 2) ELSE j
             IN  SubSeq(s, i, k)

RECURSIVE DecVal(_)
\* value of a string of digits
DecVal(ds) ==
    IF ds = <<>> THEN 0
    ELSE DecVal(SubSeq(ds, 1, Len(ds) - 1)) * 10 + DigitVal(ds[Len(ds)])

RECURSIVE PointAt(_, _)
PointAt(m, i) ==
    IF i > Len(m) THEN 0 ELSE IF m[i] = "." THEN i ELSE PointAt(m, i + 1)

\* parseFloat of a matched numeral, in units of 10^-FracWidth
ParseFloat(m) ==
    LET p == PointAt(m, 1)
    IN  IF p = 0 THEN DecVal(m) * Pow10(FracWidth)
        ELSE DecVal(SubSeq(m, 1, p - 1)) * Pow10(FracWidth)
             + DecVal(SubSeq(m, p + 1, Len(m))) * Pow10(FracWidth - (Len(m) - p))

----------------------------------------------------------------------------
(* processListings: the body of the loop, for one listing *)

\* field?.match(...) throws a TypeError when field is neither undefined, null nor a string
MatchThrows(field) == field.t = "number"

\* field?.match(/(\d+(?:\.\d+)?)/): <<>> when field is undefined/null or nothing matches
OptionalMatch(field) ==
    IF field.t = "string" THEN RegexMatch(field.s) ELSE <<>>

\* mutant: an unparseable price gives null, like floorPrice, instead of 0
PriceOfNull(priceMatch) ==
    IF priceMatch # <<>> THEN JNumber(ParseFloat(priceMatch)) ELSE JNull

\* priceMatch ? parseFloat(priceMatch[1]) : 0
PriceOf(priceMatch) ==
    IF priceMatch # <<>> THEN JNumber(ParseFloat(priceMatch)) ELSE JNumber(0)

\* floorPriceMatch ? parseFloat(floorPriceMatch[1]) : null
FloorPriceOf(floorPriceMatch) ==
    IF floorPriceMatch # <<>> THEN JNumber(ParseFloat(floorPriceMatch)) ELSE JNull

\* mutant: a price of 0 is taken for "no price" and never flagged
IsBelowFloorNeedsPrice(price, floorPrice) ==
    IF floorPrice.t = "number" /\ floorPrice.n # 0 /\ price.n # 0
    THEN price.n < floorPrice.n ELSE FALSE

\* mutant: the comparison the other way round
IsBelowFloorFlipped(price, floorPrice) ==
    IF floorPrice.t = "number" /\ floorPrice.n # 0 THEN price.n > floorPrice.n ELSE FALSE

\* mutant: no floor price counts as below floor
IsBelowFloorNoFloor(price, floorPrice) ==
    IF floorPrice.t = "number" /\ floorPrice.n # 0 THEN price.n < floorPrice.n ELSE TRUE

\* floorPrice ? price < floorPrice : false  (floorPrice is tested by truthiness: null and 0 are falsy)
IsBelowFloor(price, floorPrice) ==
    IF floorPrice.t = "number" /\ floorPrice.n # 0 THEN price.n < floorPrice.n ELSE FALSE

\* new Date().toISOString() at clock reading now
IsoString(now) == JString(<<"T", CHOOSE c \in Digits : DigitVal(c) = now>>)

\* mutant: the listing's own listedAt is ignored
ListedAtAlwaysNow(listing, now) == IsoString(now)

\* listing.listedAt || new Date().toISOString()
ListedAtOf(listing, now) ==
    IF listing.listedAt.t = "string" /\ listing.listedAt.s # <<>> THEN listing.listedAt
    ELSE IsoString(now)

\* text_parse: {...listing.metadata, scrapedAt: new Date().toISOString()}; json: listing.metadata || {}
MetadataOf(ver, listing, now) ==
    LET own == IF listing.metadata.t = "object" THEN listing.metadata.keys ELSE {}
    IN  IF ver = "text_parse"
        THEN [t |-> "object", keys |-> own, scrapedAt |-> IsoString(now)]
        ELSE [t |-> "object", keys |-> own, scrapedAt |-> Undefined]

\* the try block of the loop body throws a TypeError: reading a field of a null entry, or
\* calling .match on a field that is not a string
ListingThrows(listing) ==
    \/ listing.t = "null"
    \/ listing.t = "object" /\ (MatchThrows(listing.price) \/ MatchThrows(listing.floorPrice))

\* the catch block reads listing.domainName, which throws again when the entry itself is null
CatchThrows(listing) == listing.t = "null"

\* processedListing, for a listing whose try block does not throw
ProcessedListing(ver, listing, now1, now2) ==
    LET price == PriceOf(OptionalMatch(listing.price))
        floorPrice == FloorPriceOf(OptionalMatch(listing.floorPrice))
    IN  [domainName |-> listing.domainName,
         price |-> price,
         floorPrice |-> floorPrice,
         isBelowFloor |-> IsBelowFloor(price, floorPrice),
         listedAt |-> ListedAtOf(listing, now1),
         metadata |-> MetadataOf(ver, listing, now2)]

\* one pass of the loop body: the record pushed, or the listing skipped by the catch block,
\* or the catch block's own TypeError leaving processListings
ProcessOne(ver, listing, now1, now2) ==
    IF ~ListingThrows(listing)
    THEN [status |-> "pushed", listing |-> ProcessedListing(ver, listing, now1, now2)]
    ELSE IF CatchThrows(listing) THEN [status |-> "threw"]
    ELSE [status |-> "skipped"]

----------------------------------------------------------------------------
(* Raw listings *)

RawListing(domainName, price, floorPrice, listedAt, metadata) ==
    [t |-> "object", domainName |-> domainName, price |-> price, floorPrice |-> floorPrice,
     listedAt |-> listedAt, metadata |-> metadata]

TextValues == {JString(s) : s \in Texts} \cup {Undefined}

\* well-formed raw listings: price and floorPrice texts (floorPrice, listedAt, metadata optional)
WellFormedListings ==
    {RawListing("a.eth", p, f, Undefined, Undefined) : p \in TextValues, f \in TextValues}
    \cup {RawListing("b.eth", JString(Text25ETH), f, JString(<<"T", "0">>), m) :
             f \in {Undefined, JString(<<"1">>), JString(<<"3">>)},
             m \in {Undefined, [t |-> "object", keys |-> {"source"}]}}

\* malformed entries of a loosely-typed response: a null entry, a numeric price or floorPrice
MalformedListings ==
    {JNull,
     RawListing("c.eth", JNumber(1), Undefined, Undefined, Undefined),
     RawListing("d.eth", JString(<<"1">>), JNumber(1), Undefined, Undefined)}

NoResult == [status |-> "none"]

Clock == 1..MaxClock

----------------------------------------------------------------------------
(* The handler's variables while only processListings is exercised, and back *)

HandlerOff ==
    /\ pc = "off"
    /\ requests = <<>>
    /\ responses = <<>>
    /\ probe = "none"
    /\ successfulData = JNull
    /\ lastError = JNull
    /\ replies = <<>>
    /\ ret = "none"

NormOff ==
    /\ rawListing = JNull
    /\ processed = NoResult
    /\ npc = "off"

RepeatOff == runs = <<>>

ConcurrentOff == invocations = <<>>

RunOff ==
    /\ store = <<>>
    /\ rpc = "off"
    /\ client = "none"
    /\ result = "none"
    /\ calls = <<>>
    /\ finished = <<>>

ActionsOff ==
    /\ action = "none"
    /\ messageText = Undefined
    /\ apc = "off"
    /\ outbound = <<>>
    /\ answers = <<>>
    /\ aret = "none"

ServerOff ==
    /\ srv = "off"
    /\ exitCode = Undefined
    /\ runtime = "unset"
    /\ endpoint = "none"
    /\ reqBody = Undefined
    /\ available = {}
    /\ epc = "off"
    /\ deals = <<>>
    /\ results = <<>>
    /\ serviceCalls = <<>>
    /\ res = Undefined

ButtonOff ==
    /\ isLoading = FALSE
    /\ disabled = TRUE
    /\ inflight = 0
    /\ toasts = <<>>
    /\ clicks = 0

OthersOff == RepeatOff /\ ConcurrentOff /\ RunOff /\ ActionsOff /\ ServerOff /\ ButtonOff

----------------------------------------------------------------------------
(* SpecNorm: processListings applied to one raw listing *)

InitNorm ==
    /\ version \in Versions
    /\ HandlerOff
    /\ rawListing \in WellFormedListings \cup MalformedListings
    /\ processed = NoResult
    /\ npc = "ready"
    /\ OthersOff

\* one iteration of the for loop of processListings
ProcessListing ==
    /\ npc = "ready"
    /\ \E now1 \in Clock, now2 \in Clock :
          /\ now1 <= now2
          /\ processed' = ProcessOne(version, rawListing, now1, now2)
    /\ npc' = "done"
    /\ UNCHANGED <<rawListing, hvars, ovars>>

NextNorm == ProcessListing

SpecNorm == InitNorm /\ [][NextNorm]_vars

----------------------------------------------------------------------------
(* processListings over the listings of a response *)

RECURSIVE ProcessListings(_, _, _, _)
\* the for loop: the records pushed so far, and whether a catch block's own TypeError
\* left the function (the listings after that one are then not looked at)
ProcessListings(ver, items, now1, now2) ==
    IF items = <<>> THEN [threw |-> FALSE, out |-> <<>>]
    ELSE LET one == ProcessOne(ver, Head(items), now1, now2)
             rest == ProcessListings(ver, Tail(items), now1, now2)
         IN  CASE one.status = "threw" -> [threw |-> TRUE, out |-> <<>>]
               [] one.status = "skipped" -> rest
               [] one.status = "pushed" ->
                    [threw |-> rest.threw, out |-> <<one.listing>> \o rest.out]

----------------------------------------------------------------------------
(* The scraping API's responses *)

\* marketplaces[i].name, in the order of the array
Marketplaces == <<"Vision.io", "ENS Domains", "OpenSea ENS">>

\* url of the connectivity probe
ProbeUrl == "https://example.com"

JArray(items) == [t |-> "array", items |-> items]
\* data.data of a response body, with its listings field
DataWith(listings) == [t |-> "object", listings |-> listings]
\* a response body that parsed to an object
Body(success, data) == [t |-> "object", success |-> success, data |-> data]

\* the raw listings the model's responses are made of: below floor, no numeric price,
\* a null entry, a numeric price
BelowFloorListing == RawListing("a.eth", JString(<<"1">>), JString(<<"1", ".", "1">>),
                                JString(<<"T", "0">>), [t |-> "object", keys |-> {"source"}])
NoPriceListing == RawListing("b.eth", JString(TextETH), Undefined, Undefined, Undefined)
NumericPriceListing == RawListing("c.eth", JNumber(1), Undefined, Undefined, Undefined)
ResponseListings == {BelowFloorListing, NoPriceListing, NumericPriceListing, JNull}

ListingArrays == UNION {[1..n -> ResponseListings] : n \in 1..MaxListings}

\* bodies that parse and hold no usable listings: no data, no listings field, an empty
\* array, or a success flag of false
EmptyBodies ==
    {Body(TRUE, Undefined), Body(TRUE, DataWith(Undefined)), Body(TRUE, DataWith(JArray(<<>>))),
     Body(FALSE, Undefined), Body(FALSE, DataWith(JArray(<<>>))),
     Body(FALSE, DataWith(JArray(<<BelowFloorListing>>)))}

ListingBodies == {Body(TRUE, DataWith(JArray(a))) : a \in ListingArrays}

\* what one request to a marketplace can come back with
TargetResponses ==
    {[kind |-> "fetch_rejects"], [kind |-> "invalid_json"]}
    \cup {[kind |-> "http_error", status |-> st] : st \in {403, 500}}
    \cup {[kind |-> "json", data |-> d] : d \in {JNull} \cup EmptyBodies \cup ListingBodies}

\* what the probe request can come back with: "success_false" is a body whose success
\* flag is false, "null_body" a body that parses to null
ProbeOutcomes ==
    {"ok", "fetch_rejects", "http_error", "invalid_json", "success_false", "null_body"}

\* validateFirecrawlConfig(runtime) resolves to the config or rejects
ConfigOutcomes == {"valid", "invalid"}

----------------------------------------------------------------------------
(* testFirecrawlConnection *)

\* mutant: the body's success flag is not looked at
TestFirecrawlConnectionNoFlag(outcome) ==
    CASE outcome \in {"ok", "success_false"} -> [success |-> TRUE, error |-> "none"]
      [] outcome = "http_error" -> [success |-> FALSE, error |-> "API connection test failed"]
      [] OTHER -> [success |-> FALSE, error |-> "Connection test error"]

\* the probe's result: { success, error? }; every throw inside is caught
TestFirecrawlConnection(outcome) ==
    CASE outcome = "ok" -> [success |-> TRUE, error |-> "none"]
      [] outcome = "http_error" -> [success |-> FALSE, error |-> "API connection test failed"]
      [] outcome = "success_false" -> [success |-> FALSE, error |-> "API test failed"]
      [] OTHER -> [success |-> FALSE, error |-> "Connection test error"]

----------------------------------------------------------------------------
(* One iteration of the loop over marketplaces *)

\* lastError = `${marketplace.name} <kind>: <detail>`
ErrorText(name, kind, detail) == [t |-> "string", name |-> name, kind |-> kind, detail |-> detail]

\* mutant: the success flag is not tested
HasListingsAnySuccess(data) ==
    /\ data.data.t = "object"
    /\ data.data.listings.t = "array"
    /\ Len(data.data.listings.items) > 0

\* mutant: the length is not tested
HasListingsNoLength(data) ==
    /\ data.success
    /\ data.data.t = "object"
    /\ data.data.listings.t = "array"

\* data.success && data.data?.listings && data.data.listings.length > 0
HasListings(data) ==
    /\ data.success
    /\ data.data.t = "object"
    /\ data.data.listings.t = "array"
    /\ Len(data.data.listings.items) > 0

\* text_parse only: the catch block of JSON.parse reads responseText, which is declared
\* inside the try block and so is not in scope: a ReferenceError, caught by the
\* iteration's own catch, which overwrites lastError
ParseCatchThrows(ver) == ver = "text_parse"

\* mutant: the first recorded error is kept
RecordFirstError(old, new) == IF old = JNull THEN new ELSE old

\* lastError = ...
RecordError(old, new) == new

\* mutant: an HTTP error is logged but not recorded
AttemptForgetsHttpError(ver, name, old, resp) ==
    CASE resp.kind = "fetch_rejects" ->
            [won |-> FALSE, lastError |-> RecordError(old, ErrorText(name, "error", "fetch failed"))]
      [] resp.kind = "http_error" -> [won |-> FALSE, lastError |-> old]
      [] OTHER -> [won |-> FALSE, lastError |-> RecordError(old, ErrorText(name, "error", "other"))]

\* mutant: an empty result is recorded as an error too
AttemptRecordsEmpty(ver, name, old, resp) ==
    CASE resp.kind = "fetch_rejects" ->
            [won |-> FALSE, lastError |-> RecordError(old, ErrorText(name, "error", "fetch failed"))]
      [] resp.kind = "http_error" ->
            [won |-> FALSE, lastError |-> RecordError(old, ErrorText(name, "failed", resp.status))]
      [] resp.kind = "json" /\ resp.data # JNull ->
            IF HasListings(resp.data) THEN [won |-> TRUE, lastError |-> old]
            ELSE [won |-> FALSE,
                  lastError |-> RecordError(old, ErrorText(name, "error", "no listings"))]
      [] OTHER -> [won |-> FALSE, lastError |-> RecordError(old, ErrorText(name, "error", "other"))]

\* mutant: the text_parse version takes a body with listings whatever its success flag
AttemptParsedAnySuccess(ver, name, old, resp) ==
    CASE resp.kind = "fetch_rejects" ->
            \* fetch throws: catch (error)
            [won |-> FALSE, lastError |-> RecordError(old, ErrorText(name, "error", "fetch failed"))]
      [] resp.kind = "http_error" ->
            \* !response.ok: record, continue
            [won |-> FALSE, lastError |-> RecordError(old, ErrorText(name, "failed", resp.status))]
      [] resp.kind = "invalid_json" ->
            IF ver = "text_parse"
            THEN LET recorded == RecordError(old, ErrorText(name, "returned invalid JSON", "parse message"))
                 IN  IF ParseCatchThrows(ver)
                     THEN [won |-> FALSE,
                           lastError |-> RecordError(recorded,
                               ErrorText(name, "error", "responseText is not defined"))]
                     ELSE [won |-> FALSE, lastError |-> recorded]
            \* response.json() rejects: catch (error)
            ELSE [won |-> FALSE, lastError |-> RecordError(old, ErrorText(name, "error", "parse message"))]
      [] resp.kind = "json" /\ resp.data = JNull ->
            \* data.success on null throws a TypeError: catch (error)
            [won |-> FALSE, lastError |-> RecordError(old, ErrorText(name, "error", "TypeError"))]
      [] resp.kind = "json" /\ resp.data # JNull ->
            IF (IF ver = "text_parse" THEN HasListingsAnySuccess(resp.data)
                ELSE HasListings(resp.data))
            THEN [won |-> TRUE, lastError |-> old]
            \* else branch: a warning is logged, nothing is recorded
            ELSE [won |-> FALSE, lastError |-> old]

\* the try/catch body of the loop for marketplace `name`, given what the request came
\* back with: whether this marketplace is the winner, and lastError afterwards
Attempt(ver, name, old, resp) ==
    CASE resp.kind = "fetch_rejects" ->
            \* fetch throws: catch (error)
            [won |-> FALSE, lastError |-> RecordError(old, ErrorText(name, "error", "fetch failed"))]
      [] resp.kind = "http_error" ->
            \* !response.ok: record, continue
            [won |-> FALSE, lastError |-> RecordError(old, ErrorText(name, "failed", resp.status))]
      [] resp.kind = "invalid_json" ->
            IF ver = "text_parse"
            THEN LET recorded == RecordError(old, ErrorText(name, "returned invalid JSON", "parse message"))
                 IN  IF ParseCatchThrows(ver)
                     THEN [won |-> FALSE,
                           lastError |-> RecordError(recorded,
                               ErrorText(name, "error", "responseText is not defined"))]
                     ELSE [won |-> FALSE, lastError |-> recorded]
            \* response.json() rejects: catch (error)
            ELSE [won |-> FALSE, lastError |-> RecordError(old, ErrorText(name, "error", "parse message"))]
      [] resp.kind = "json" /\ resp.data = JNull ->
            \* data.success on null throws a TypeError: catch (error)
            [won |-> FALSE, lastError |-> RecordError(old, ErrorText(name, "error", "TypeError"))]
      [] resp.kind = "json" /\ resp.data # JNull ->
            IF HasListings(resp.data) THEN [won |-> TRUE, lastError |-> old]
            \* else branch: a warning is logged, nothing is recorded
            ELSE [won |-> FALSE, lastError |-> old]

\* mutant: only a winner ends the loop
LoopEndsOnWinOnly(won, i) == won

\* mutant: no break on a winner
LoopEndsNoBreak(won, i) == i = NumMarketplaces

\* the loop ends by break on a winner, or after the last marketplace
LoopEnds(won, i) == won \/ i = NumMarketplaces

----------------------------------------------------------------------------
(* callback replies; the callback is the host's and is taken to return normally *)

ConnectFailedReply(error) == [kind |-> "Failed to connect to Firecrawl API", error |-> error]
UnableToCrawlReply(err) == [kind |-> "Unable to crawl", lastError |-> err]
SuccessReply(name, listings, done) ==
    [kind |-> "Successfully crawled", marketplace |-> name, totalListings |-> Len(listings),
     processedListings |-> Len(done),
     sampleListings |-> SubSeq(done, 1, IF Len(done) < 3 THEN Len(done) ELSE 3)]
ErrorReply == [kind |-> "Error crawling Vision.io"]

----------------------------------------------------------------------------
(* Spec: one invocation of crawlVisionAction.handler *)

Init ==
    /\ version \in Versions
    /\ pc = "validate"
    /\ requests = <<>>
    /\ responses = <<>>
    /\ probe = "none"
    /\ successfulData = JNull
    /\ lastError = JNull
    /\ replies = <<>>
    /\ ret = "none"
    /\ NormOff
    /\ OthersOff

\* const config = await validateFirecrawlConfig(runtime), before the try block
ValidateConfig ==
    /\ pc = "validate"
    /\ \E outcome \in ConfigOutcomes :
          pc' = IF outcome = "valid" THEN "probe" ELSE "thrown"
    /\ UNCHANGED <<version, requests, responses, probe, successfulData, lastError, replies,
                   ret, nvars, ovars>>

\* mutant: the failure reply is not followed by return false
TestConnectionNoReturn ==
    /\ pc = "probe"
    /\ \E outcome \in ProbeOutcomes :
          LET testResponse == TestFirecrawlConnection(outcome)
          IN  /\ probe' = outcome
              /\ requests' = Append(requests, ProbeUrl)
              /\ replies' = IF ~testResponse.success
                             THEN Append(replies, ConnectFailedReply(testResponse.error))
                             ELSE replies
              /\ pc' = "loop"
              /\ UNCHANGED ret
    /\ UNCHANGED <<version, responses, successfulData, lastError, nvars, ovars>>

\* the connectivity probe, and the early return when it fails
TestConnection ==
    /\ pc = "probe"
    /\ \E outcome \in ProbeOutcomes :
          LET testResponse == TestFirecrawlConnection(outcome)
          IN  /\ probe' = outcome
              /\ requests' = Append(requests, ProbeUrl)
              /\ IF ~testResponse.success
                 THEN /\ replies' = Append(replies, ConnectFailedReply(testResponse.error))
                      /\ ret' = "false"
                      /\ pc' = "returned"
                 ELSE /\ pc' = "loop"
                      /\ UNCHANGED <<replies, ret>>
    /\ UNCHANGED <<version, responses, successfulData, lastError, nvars, ovars>>

\* one iteration of for (const marketplace of marketplaces); after the last one without
\* a winner, the exhaustion reply and return false
TryMarketplaceOn(possible) ==
    /\ pc = "loop"
    /\ Len(responses) < NumMarketplaces
    /\ \E resp \in possible :
          LET i == Len(responses) + 1
              name == Marketplaces[i]
              a == Attempt(version, name, lastError, resp)
              winner == IF a.won
                        THEN [t |-> "object", marketplace |-> name,
                              listings |-> resp.data.data.listings.items]
                        ELSE successfulData
          IN  /\ requests' = Append(requests, name)
              /\ responses' = Append(responses, resp)
              /\ lastError' = a.lastError
              /\ successfulData' = winner
              /\ IF ~LoopEnds(a.won, i)
                 THEN /\ pc' = "loop"
                      /\ UNCHANGED <<replies, ret>>
                 ELSE IF winner = JNull
                 THEN /\ replies' = Append(replies, UnableToCrawlReply(a.lastError))
                      /\ ret' = "false"
                      /\ pc' = "returned"
                 ELSE /\ pc' = "process"
                      /\ UNCHANGED <<replies, ret>>
    /\ UNCHANGED <<version, probe, nvars, ovars>>

TryMarketplace == TryMarketplaceOn(TargetResponses)

\* await processListings(listings, runtime), the success reply and return true; or, when
\* processListings throws, the outer catch: the error reply and return false.
\* One pair of clock readings stands for the whole batch.
ProcessAndReply ==
    /\ pc = "process"
    /\ \E now1 \in Clock, now2 \in Clock :
          /\ now1 <= now2
          /\ \E r \in {ProcessListings(version, successfulData.listings, now1, now2)} :
                IF r.threw
                THEN /\ replies' = Append(replies, ErrorReply)
                     /\ ret' = "false"
                ELSE /\ replies' = Append(replies,
                                          SuccessReply(successfulData.marketplace,
                                                       successfulData.listings, r.out))
                     /\ ret' = "true"
    /\ pc' = "returned"
    /\ UNCHANGED <<version, requests, responses, probe, successfulData, lastError, nvars, ovars>>

Next == ValidateConfig \/ TestConnection \/ TryMarketplace \/ ProcessAndReply

Spec == Init /\ [][Next]_vars

\* one response for each way a request to a marketplace can end: fetch rejects, an HTTP
\* error, a body that is not JSON, a null body, a body without listings, listings under
\* success = false, a winner, a winner whose batch makes processListings throw
ResponseKinds ==
    {[kind |-> "fetch_rejects"], [kind |-> "invalid_json"], [kind |-> "http_error", status |-> 500],
     [kind |-> "json", data |-> JNull],
     [kind |-> "json", data |-> Body(TRUE, DataWith(JArray(<<>>)))],
     [kind |-> "json", data |-> Body(FALSE, DataWith(JArray(<<BelowFloorListing>>)))],
     [kind |-> "json", data |-> Body(TRUE, DataWith(JArray(<<BelowFloorListing>>)))],
     [kind |-> "json", data |-> Body(TRUE, DataWith(JArray(<<JNull>>)))]}

TryMarketplaceKind == TryMarketplaceOn(ResponseKinds)

NextFair == ValidateConfig \/ TestConnection \/ TryMarketplaceKind \/ ProcessAndReply

\* one invocation in which every awaited request settles (returns or throws), so that the
\* handler always takes its next step
SpecFair == Init /\ [][NextFair]_vars /\ WF_vars(NextFair)

----------------------------------------------------------------------------
(* What the specification says of numeric extraction, stated without the regex *)

DigitPositions(s) == {i \in 1..Len(s) : s[i] \in Digits}

\* the text holds a numeric token
HasNumeral(field) == field.t = "string" /\ DigitPositions(field.s) # {}

Least(S) == CHOOSE i \in S : \A j \in S : i <= j
Greatest(S) == CHOOSE i \in S : \A j \in S : j <= i

\* the last index of the maximal run of digits that starts at i
RunEnd(s, i) == Greatest({j \in i..Len(s) : \A l \in i..j : s[l] \in Digits})

RECURSIVE PlaceSum(_, _, _, _)
\* the digits s[l..hi], the digit at index l weighing 10^(top - l)
PlaceSum(s, l, hi, top) ==
    IF l > hi THEN 0 ELSE DigitVal(s[l]) * Pow10(top - l) + PlaceSum(s, l + 1, hi, top)

\* value (in units of 10^-FracWidth) of the leftmost contiguous decimal numeral of s,
\* with its fractional part when a point followed by digits directly follows
LeftmostNumeral(s) ==
    LET i == Least(DigitPositions(s))
        j == RunEnd(s, i)
        fraction == j + 2 <= Len(s) /\ s[j + 1] = "." /\ s[j + 2] \in Digits
    IN  PlaceSum(s, i, j, j + FracWidth)
        + (IF fraction THEN PlaceSum(s, j + 2, RunEnd(s, j + 2), j + 1 + FracWidth) ELSE 0)

\* extractLeadingDecimal of the specification: a number, or null
ExtractLeadingDecimal(field) ==
    IF HasNumeral(field) THEN JNumber(LeftmostNumeral(field.s)) ELSE JNull

NormDone == npc = "done" /\ processed.status = "pushed"

----------------------------------------------------------------------------
(* Claims on processListings, under SpecNorm *)

\* C8: every record produced by processListings has isBelowFloor true if and only if
\* floorPrice is non-null and price < floorPrice, also when the extracted floor price is 0
\* (which the code tests by truthiness: price is never negative, so the two tests agree).
C8_IsBelowFloorIffBelowNonNullFloor ==
    NormDone =>
        LET r == processed.listing
        IN  r.isBelowFloor = (r.floorPrice # JNull /\ r.price.n < r.floorPrice.n)

\* C8 witness: a record whose extracted floor price is 0 has been produced.
C8_Witness ==
    /\ NormDone
    /\ processed.listing.floorPrice = JNumber(0)
    /\ processed.listing.isBelowFloor = FALSE

\* C9 (as claimed): for every well-formed raw listing, isBelowFloor equals (floorPrice
\* parses to a number f and price parses to a number p and p < f), so it is false
\* when price holds no numeric token.
C9_Original ==
    NormDone =>
        processed.listing.isBelowFloor =
            (/\ HasNumeral(rawListing.floorPrice)
             /\ HasNumeral(rawListing.price)
             /\ LeftmostNumeral(rawListing.price.s) < LeftmostNumeral(rawListing.floorPrice.s))

\* C9 (amended): for every well-formed raw listing, isBelowFloor equals (floorPrice parses
\* to a number f and p < f), where p is the number price parses to, or 0 when price holds
\* no numeric token; so a listing without a numeric price is below every floor f > 0.
C9_IsBelowFloorWithDefaultPrice ==
    NormDone =>
        LET p == IF HasNumeral(rawListing.price)
                 THEN LeftmostNumeral(rawListing.price.s) ELSE 0
        IN  processed.listing.isBelowFloor =
                (/\ HasNumeral(rawListing.floorPrice)
                 /\ p < LeftmostNumeral(rawListing.floorPrice.s))

\* C9 witness: a listing whose price holds no numeric token, with a floor above 0, was
\* normalized and flagged below floor.
C9_Witness ==
    /\ NormDone
    /\ rawListing.price = JString(TextETH)
    /\ HasNumeral(rawListing.floorPrice)
    /\ processed.listing.isBelowFloor = TRUE

\* C10: numeric extraction gives the value of the leftmost contiguous decimal numeral of
\* the text, with its fraction when a point followed by digits directly follows, and null
\* when the text has no digit or is undefined ("2.5 ETH" gives 2.5, "ETH" null, undefined
\* null); price and floorPrice are extracted alike, but price is 0 where that gives null.
C10_ExtractLeadingDecimal ==
    NormDone =>
        LET r == processed.listing
            p == ExtractLeadingDecimal(rawListing.price)
        IN  /\ r.floorPrice = ExtractLeadingDecimal(rawListing.floorPrice)
            /\ r.price = (IF p = JNull THEN JNumber(0) ELSE p)
            /\ rawListing.floorPrice = JString(Text25ETH) => r.floorPrice = JNumber(25 * Pow10(FracWidth - 1))
            /\ rawListing.price = JString(Text25ETH) => r.price = JNumber(25 * Pow10(FracWidth - 1))
            /\ rawListing.floorPrice \in {JString(TextETH), Undefined} => r.floorPrice = JNull
            /\ rawListing.price \in {JString(TextETH), Undefined} => r.price = JNumber(0)

\* C10 witness: "2.5 ETH" was extracted as 2.5 next to a floorPrice "ETH" extracted as null.
C10_Witness ==
    /\ NormDone
    /\ rawListing.price = JString(Text25ETH)
    /\ rawListing.floorPrice = JString(TextETH)
    /\ processed.listing.price = JNumber(25 * Pow10(FracWidth - 1))
    /\ processed.listing.floorPrice = JNull

----------------------------------------------------------------------------
(* Claims on the CRAWL_VISION handler, under Spec *)

Last(q) == q[Len(q)]

\* the per-target requests, in the order issued
TargetRequests == SelectSeq(requests, LAMBDA u : u # ProbeUrl)

\* the request ended in a TargetFailure: HTTP error, malformed body, or an exception
IsTargetFailure(resp) ==
    \/ resp.kind \in {"http_error", "invalid_json", "fetch_rejects"}
    \/ resp.kind = "json" /\ resp.data = JNull

\* the response parsed and holds zero listings
ZeroListings(resp) ==
    /\ resp.kind = "json"
    /\ resp.data.t = "object"
    /\ \/ resp.data.data.t # "object"
       \/ resp.data.data.listings.t # "array"
       \/ resp.data.data.listings.items = <<>>

Exhausted == pc = "returned" /\ replies # <<>> /\ Last(replies).kind = "Unable to crawl"

TwoListings == <<BelowFloorListing, NoPriceListing>>

\* targets 1 and 2 fail with an HTTP error and target 3 returns two listings
TwoFailThenTwoListings ==
    /\ Len(responses) = 3
    /\ responses[1].kind = "http_error"
    /\ responses[2].kind = "http_error"
    /\ responses[3] = [kind |-> "json", data |-> Body(TRUE, DataWith(JArray(TwoListings)))]

\* C1: per-target requests are issued in the fixed order Vision.io, ENS Domains, OpenSea
\* ENS, each at most once; once a target is the winner no later target is requested (the
\* winner stays the last one requested); and when targets 1 and 2 fail with an HTTP error
\* and target 3 returns two listings, 1 and 2 are requested once each before 3, and 3 is
\* reported as the winner with two normalized listings.
C1_FixedOrderStopAtWinner ==
    /\ \E n \in 0..NumMarketplaces : TargetRequests = SubSeq(Marketplaces, 1, n)
    /\ successfulData # JNull =>
          /\ TargetRequests # <<>>
          /\ Last(TargetRequests) = successfulData.marketplace
    /\ (pc = "returned" /\ TwoFailThenTwoListings) =>
          /\ requests = <<ProbeUrl>> \o Marketplaces
          /\ Len(replies) = 1
          /\ replies[1].kind = "Successfully crawled"
          /\ replies[1].marketplace = "OpenSea ENS"
          /\ replies[1].totalListings = 2
          /\ replies[1].processedListings = 2
          /\ ret = "true"

\* C1 witness: the handler has returned after two HTTP errors and a third target with
\* two listings.
C1_Witness ==
    /\ pc = "returned"
    /\ TwoFailThenTwoListings
    /\ successfulData.marketplace = "OpenSea ENS"

\* C2: if the connectivity probe fails (non-success status, success flag false, thrown
\* fetch or parse error) the handler replies with the connectivity failure, returns
\* false, and has issued no per-target request.
C2_ProbeFailureShortCircuits ==
    probe \notin {"none", "ok"} =>
        /\ pc = "returned"
        /\ ret = "false"
        /\ Len(replies) = 1
        /\ replies[1].kind = "Failed to connect to Firecrawl API"
        /\ TargetRequests = <<>>
        /\ requests = <<ProbeUrl>>
        /\ responses = <<>>

\* C2 witness: the probe came back with a body whose success flag is false, and the
\* handler has returned.
C2_Witness ==
    /\ probe = "success_false"
    /\ pc = "returned"
    /\ ret = "false"

\* C3: if every target returned a parseable response with zero listings, the handler ends
\* in the exhaustion failure (false, the 'Unable to crawl' reply) with every target
\* requested exactly once.
C3_AllEmptyExhausts ==
    (/\ pc = "returned"
     /\ responses # <<>>
     /\ \A i \in 1..Len(responses) : ZeroListings(responses[i])) =>
        /\ ret = "false"
        /\ Len(replies) = 1
        /\ replies[1].kind = "Unable to crawl"
        /\ requests = <<ProbeUrl>> \o Marketplaces
        /\ Len(responses) = NumMarketplaces

\* C3 witness: three zero-listing responses (no data, no listings field, an empty array)
\* and the handler has returned.
C3_Witness ==
    /\ pc = "returned"
    /\ Len(responses) = 3
    /\ \A i \in 1..3 : ZeroListings(responses[i])
    /\ responses[3].data.data = DataWith(JArray(<<>>))
    /\ ret = "false"

\* C4: when a target's request ends in a non-success status, an unparseable body or a
\* thrown exception, a reason naming that target is recorded in lastError, and on a
\* non-last target the loop goes on to the next target: the step makes no reply and no
\* return; on the last target the reply is the exhaustion reply, not the outer catch's.
C4_TargetFailureRecordedLoopContinues ==
    [][(responses' # responses /\ IsTargetFailure(Last(responses'))) =>
          LET i == Len(responses')
              resp == Last(responses')
          IN  /\ lastError' # JNull
              /\ lastError'.name = Marketplaces[i]
              /\ resp.kind = "http_error" =>
                    lastError'.kind = "failed" /\ lastError'.detail = resp.status
              /\ resp.kind # "http_error" =>
                    lastError'.kind \in {"error", "returned invalid JSON"}
              /\ i < NumMarketplaces =>
                    /\ pc' = "loop"
                    /\ replies' = replies
                    /\ ret' = "none"
              /\ i = NumMarketplaces =>
                    /\ pc' = "returned"
                    /\ replies' = Append(replies, UnableToCrawlReply(lastError'))
                    /\ ret' = "false"]_vars

\* C4 witness: target 1 failed with an HTTP error, target 2 with a thrown fetch, and the
\* loop is about to try target 3 with target 2's reason recorded.
C4_Witness ==
    /\ pc = "loop"
    /\ Len(responses) = 2
    /\ responses[1].kind = "http_error"
    /\ responses[2].kind = "fetch_rejects"
    /\ lastError # JNull
    /\ lastError.name = "ENS Domains"

\* C5 (as claimed): a target whose response parses with zero listings is recorded as a
\* per-target error, so the exhaustion failure always carries a recorded reason, also
\* when all targets were empty.
C5_Original ==
    Exhausted =>
        /\ Last(replies).lastError # JNull
        /\ ZeroListings(Last(responses)) => Last(replies).lastError.name = Marketplaces[Len(responses)]

\* C5 (amended): a target whose response parses with zero listings is only logged and
\* leaves lastError as it was; when no target produced a winner the failure reply carries
\* the last recorded per-target error, which is null when all targets were empty.
C5_EmptyLeavesLastError ==
    [][responses' # responses =>
          /\ ZeroListings(Last(responses')) => lastError' = lastError
          /\ Exhausted' =>
                /\ Last(replies').lastError = lastError'
                /\ (\A i \in 1..Len(responses') : ZeroListings(responses'[i])) =>
                      Last(replies').lastError = JNull]_vars

\* C5 witness: all three targets were empty and the exhaustion reply carries null.
C5_Witness ==
    /\ Exhausted
    /\ Len(responses) = 3
    /\ \A i \in 1..3 : ZeroListings(responses[i])
    /\ Last(replies) = UnableToCrawlReply(JNull)

\* C6: on exhaustion the error attached to the reply is the reason of the most recent
\* target, in iteration order, that ended in a TargetFailure; empty results after it do
\* not replace it (and it is null when no target failed).
C6_MostRecentTargetFailure ==
    Exhausted =>
        LET failed == {i \in 1..Len(responses) : IsTargetFailure(responses[i])}
            attached == Last(replies).lastError
        IN  IF failed = {} THEN attached = JNull
            ELSE LET i == Greatest(failed)
                 IN  /\ attached # JNull
                     /\ attached.name = Marketplaces[i]
                     /\ responses[i].kind = "http_error" =>
                           attached = ErrorText(Marketplaces[i], "failed", responses[i].status)
                     /\ responses[i].kind = "fetch_rejects" => attached.kind = "error"

\* C6 witness: targets 1 and 2 failed (HTTP 403, then HTTP 500), target 3 was empty, and
\* the reply carries target 2's reason.
C6_Witness ==
    /\ Exhausted
    /\ Len(responses) = 3
    /\ responses[1] = [kind |-> "http_error", status |-> 403]
    /\ responses[2] = [kind |-> "http_error", status |-> 500]
    /\ ZeroListings(responses[3])
    /\ Last(replies).lastError = ErrorText("ENS Domains", "failed", 500)

\* C7 (as claimed): for every outcome of configuration validation, the probe, the target
\* requests and normalization, the handler ends by returning true or false with a
\* callback reply, and never propagates an exception to its caller.
C7_Original ==
    /\ pc # "thrown"
    /\ pc = "returned" => (ret \in {"true", "false"} /\ replies # <<>>)

----------------------------------------------------------------------------
(* SpecRepeat: processListings applied to the same raw listing again and again *)

\* raw listings with and without a listedAt (also an empty one) and with and without
\* metadata, and the malformed ones
RepeatListings ==
    {RawListing("a.eth", p, f, l, m) :
        p \in {JString(Text25ETH), JString(TextETH), Undefined},
        f \in {Undefined, JString(<<"1">>), JString(<<"3">>)},
        l \in {Undefined, JString(<<>>), JString(<<"T", "0">>)},
        m \in {Undefined, [t |-> "object", keys |-> {"source"}]}}
    \cup MalformedListings

InitRepeat ==
    /\ version \in Versions
    /\ HandlerOff
    /\ rawListing \in RepeatListings
    /\ processed = NoResult
    /\ npc = "repeat"
    /\ runs = <<>>
    /\ ConcurrentOff /\ RunOff /\ ActionsOff /\ ServerOff /\ ButtonOff

\* one more pass of the loop body over the same listing, at a later (or the same) time
NormalizeAgain ==
    /\ npc = "repeat"
    /\ Len(runs) < MaxRuns
    /\ \E now1 \in Clock, now2 \in Clock :
          /\ now1 <= now2
          /\ runs # <<>> => runs[Len(runs)].now2 <= now1
          /\ runs' = Append(runs, [now1 |-> now1, now2 |-> now2,
                                   out |-> ProcessOne(version, rawListing, now1, now2)])
    /\ UNCHANGED <<hvars, nvars, cvars, rvars, avars, svars, bvars>>

NextRepeat == NormalizeAgain

SpecRepeat == InitRepeat /\ [][NextRepeat]_vars

\* the raw listing carries a listedAt of its own
HasListedAt(listing) == listing.listedAt.t = "string" /\ listing.listedAt.s # <<>>

\* every field but listedAt and metadata.scrapedAt agrees
SameButTimestamps(a, b) ==
    /\ a.domainName = b.domainName
    /\ a.price = b.price
    /\ a.floorPrice = b.floorPrice
    /\ a.isBelowFloor = b.isBelowFloor
    /\ a.metadata.keys = b.metadata.keys

\* C11 (as claimed): normalizing the same raw listing twice yields records equal in every
\* field except metadata.scrapedAt, for every raw listing, also those without a listedAt.
C11_Original ==
    \A i \in 1..Len(runs), j \in 1..Len(runs) :
        (runs[i].out.status = "pushed" /\ runs[j].out.status = "pushed") =>
            /\ SameButTimestamps(runs[i].out.listing, runs[j].out.listing)
            /\ runs[i].out.listing.listedAt = runs[j].out.listing.listedAt

\* C11 (amended): normalizing the same raw listing twice yields records equal in
\* domainName, price, floorPrice, isBelowFloor and the remaining metadata; listedAt is
\* equal too (the listing's own) when the raw listing has a non-empty listedAt, and
\* otherwise is the clock reading of each run, so it can differ like metadata.scrapedAt.
C11_RepeatableButTimestamps ==
    \A i \in 1..Len(runs), j \in 1..Len(runs) :
        /\ runs[i].out.status = runs[j].out.status
        /\ runs[i].out.status = "pushed" =>
              /\ SameButTimestamps(runs[i].out.listing, runs[j].out.listing)
              /\ IF HasListedAt(rawListing)
                 THEN runs[i].out.listing.listedAt = rawListing.listedAt
                 ELSE runs[i].out.listing.listedAt = IsoString(runs[i].now1)

\* C11 witness: a listing with a listedAt was normalized twice at different times by the
\* version that stamps scrapedAt: the two records differ in scrapedAt alone.
C11_Witness ==
    /\ Len(runs) = 2
    /\ runs[1].out.status = "pushed"
    /\ runs[2].out.status = "pushed"
    /\ HasListedAt(rawListing)
    /\ runs[1].out.listing.metadata.scrapedAt # runs[2].out.listing.metadata.scrapedAt
    /\ runs[1].out.listing.listedAt = runs[2].out.listing.listedAt

----------------------------------------------------------------------------
(* One invocation of the handler: the winner's batch, the winner rule, invalid JSON *)

\* the handler returned with a winner
WinnerReturned == pc = "returned" /\ successfulData # JNull

\* a raw entry whose normalization raises an error: a null entry, a price or floorPrice
\* that is a number
IsMalformed(listing) ==
    \/ listing = JNull
    \/ listing # JNull /\ (listing.price.t = "number" \/ listing.floorPrice.t = "number")

\* the entries of a batch that are not malformed, in order
WellFormedOf(listings) == SelectSeq(listings, LAMBDA l : ~IsMalformed(l))

DomainNames(listings) == [i \in 1..Len(listings) |-> listings[i].domainName]

\* C12 (as claimed): an error raised while normalizing one listing is caught for that
\* listing alone: whatever malformed entries the winner's batch holds, the handler returns
\* true with the success reply, and the reply's records are those of all other listings.
C12_Original ==
    WinnerReturned =>
        /\ ret = "true"
        /\ Last(replies).kind = "Successfully crawled"
        /\ Last(replies).processedListings = Len(WellFormedOf(successfulData.listings))

\* C13 (as claimed): on a winner the reply names the winning target, and the normalized
\* sequence holds one record per (not malformed) raw listing of the winning response, in
\* the same order and with the same domainName; its length never exceeds totalListings.
C13_Original ==
    WinnerReturned =>
        /\ Last(replies).kind = "Successfully crawled"
        /\ Last(replies).marketplace = Marketplaces[Len(responses)]
        /\ Last(replies).totalListings = Len(Last(responses).data.data.listings.items)
        /\ Last(replies).processedListings <= Last(replies).totalListings
        /\ DomainNames(Last(replies).sampleListings)
              = DomainNames(WellFormedOf(Last(responses).data.data.listings.items))

\* the response parsed to a body that holds at least one listing
ContainsListing(resp) ==
    /\ resp.kind = "json"
    /\ resp.data # JNull
    /\ resp.data.data.t = "object"
    /\ resp.data.data.listings.t = "array"
    /\ resp.data.data.listings.items # <<>>

\* target i is the winner and no later target was requested
WinnerAt(i) ==
    /\ successfulData # JNull
    /\ successfulData.marketplace = Marketplaces[i]
    /\ Len(responses) = i

\* C17 (as claimed): a target whose response contains at least one listing is the winner
\* and iteration stops at it, whatever the response's success flag.
C17_Original ==
    \A i \in 1..Len(responses) : ContainsListing(responses[i]) => WinnerAt(i)

\* C17 (amended): a target whose response contains at least one listing and whose success
\* flag is truthy is the winner and iteration stops at it; a response that contains
\* listings but whose success flag is falsy is not the winner, and the next target (if
\* any) is tried.
C17_SuccessFlagAndListingsWin ==
    \A i \in 1..Len(responses) :
        ContainsListing(responses[i]) =>
            IF responses[i].data.success
            THEN WinnerAt(i)
            ELSE /\ ~WinnerAt(i)
                 /\ i < NumMarketplaces => (pc = "loop" \/ Len(responses) > i)

\* C17 witness: the first target answered with a listing under success = false and was
\* passed over; the second answered with listings under success = true and won.
C17_Witness ==
    /\ Len(responses) = 2
    /\ ContainsListing(responses[1]) /\ ~responses[1].data.success
    /\ ContainsListing(responses[2]) /\ responses[2].data.success
    /\ WinnerAt(2)
    /\ pc = "returned" /\ ret = "true"

\* C19 (as claimed): in the JSON.parse version, when the last target returns a success
\* status with a body that is not valid JSON, the exhaustion reply carries the reason
\* '<name> returned invalid JSON: <parse message>'.
C19_Original ==
    (version = "text_parse" /\ Exhausted /\ Last(responses).kind = "invalid_json") =>
        /\ Last(replies).lastError # JNull
        /\ Last(replies).lastError.name = Marketplaces[Len(responses)]
        /\ Last(replies).lastError.kind = "returned invalid JSON"

\* the invocation is over: it returned, or left by the exception of validateFirecrawlConfig
Terminated == pc \in {"returned", "thrown"}

\* C18: provided every outbound request eventually returns or throws, one invocation
\* terminates, and it never issues more than four outbound requests: at most one probe to
\* https://example.com and at most one request per target.
C18_TerminatesWithinFourRequests ==
    /\ <>Terminated
    /\ [](/\ Len(requests) <= 1 + NumMarketplaces
          /\ Len(SelectSeq(requests, LAMBDA u : u = ProbeUrl)) <= 1
          /\ \A i \in 1..NumMarketplaces :
                Len(SelectSeq(requests, LAMBDA u : u = Marketplaces[i])) <= 1)

\* C18 witness: the invocation is over after the probe and one request to each of the
\* three targets.
C18_Witness ==
    /\ Terminated
    /\ Len(requests) = 1 + NumMarketplaces
    /\ requests[1] = ProbeUrl

----------------------------------------------------------------------------
(* SpecTwo: two invocations of crawlVisionAction.handler, interleaved at their awaits.
   All the handler's state is in its parameters and local variables (testResponse,
   successfulData, lastError, ...); the module holds no mutable binding. *)

Callers == {1, 2}

\* what a request of these invocations can come back with
CallerResponses ==
    {[kind |-> "http_error", status |-> 500], [kind |-> "invalid_json"],
     [kind |-> "json", data |-> Body(TRUE, DataWith(JArray(<<>>)))],
     [kind |-> "json", data |-> Body(TRUE, DataWith(JArray(<<BelowFloorListing>>)))]}

\* the locals of an invocation that has been called and has not run yet
Called ==
    [pc |-> "validate", requests |-> <<>>, responses |-> <<>>, probe |-> "none",
     successfulData |-> JNull, lastError |-> JNull, replies |-> <<>>, ret |-> "none"]

\* mutant: lastError is one binding of the module, here the first caller's
SharedLastError(all, k) == all[1].lastError

\* let lastError = null: a local of the invocation
OwnLastError(all, k) == all[k].lastError

InitTwo ==
    /\ version \in Versions
    /\ HandlerOff
    /\ NormOff
    /\ RepeatOff /\ RunOff /\ ActionsOff /\ ServerOff /\ ButtonOff
    /\ invocations = [k \in Callers |-> Called]

ValidateConfigOf(k) ==
    /\ invocations[k].pc = "validate"
    /\ \E outcome \in ConfigOutcomes :
          invocations' = [invocations EXCEPT
                             ![k].pc = IF outcome = "valid" THEN "probe" ELSE "thrown"]
    /\ UNCHANGED <<hvars, nvars, tvars, rvars, avars, svars, bvars>>

\* the invocation h after the probe came back with `outcome`
Probed(h, outcome) ==
    LET testResponse == TestFirecrawlConnection(outcome)
    IN  IF ~testResponse.success
        THEN [h EXCEPT !.probe = outcome,
                       !.requests = Append(h.requests, ProbeUrl),
                       !.replies = Append(h.replies, ConnectFailedReply(testResponse.error)),
                       !.ret = "false",
                       !.pc = "returned"]
        ELSE [h EXCEPT !.probe = outcome,
                       !.requests = Append(h.requests, ProbeUrl),
                       !.pc = "loop"]

\* the invocation h, running version ver with lastError old, after its next marketplace
\* came back with resp
Tried(ver, h, old, resp) ==
    LET i == Len(h.responses) + 1
        a == Attempt(ver, Marketplaces[i], old, resp)
        winner == IF a.won
                  THEN [t |-> "object", marketplace |-> Marketplaces[i],
                        listings |-> resp.data.data.listings.items]
                  ELSE h.successfulData
        tried == [h EXCEPT !.requests = Append(h.requests, Marketplaces[i]),
                           !.responses = Append(h.responses, resp),
                           !.lastError = a.lastError,
                           !.successfulData = winner]
    IN  IF ~LoopEnds(a.won, i) THEN tried
        ELSE IF winner = JNull
        THEN [tried EXCEPT !.replies = Append(h.replies, UnableToCrawlReply(a.lastError)),
                           !.ret = "false",
                           !.pc = "returned"]
        ELSE [tried EXCEPT !.pc = "process"]

\* the invocation h, running version ver, after processListings and the reply, the clock
\* reading now1 and then now2
Processed(ver, h, now1, now2) ==
    LET r == ProcessListings(ver, h.successfulData.listings, now1, now2)
    IN  IF r.threw
        THEN [h EXCEPT !.replies = Append(h.replies, ErrorReply),
                       !.ret = "false",
                       !.pc = "returned"]
        ELSE [h EXCEPT !.replies = Append(h.replies,
                           SuccessReply(h.successfulData.marketplace,
                                        h.successfulData.listings, r.out)),
                       !.ret = "true",
                       !.pc = "returned"]

TestConnectionOf(k) ==
    /\ invocations[k].pc = "probe"
    /\ \E outcome \in ProbeOutcomes :
          invocations' = [invocations EXCEPT ![k] = Probed(invocations[k], outcome)]
    /\ UNCHANGED <<hvars, nvars, tvars, rvars, avars, svars, bvars>>

TryMarketplaceOf(k) ==
    /\ invocations[k].pc = "loop"
    /\ Len(invocations[k].responses) < NumMarketplaces
    /\ \E resp \in CallerResponses :
          invocations' = [invocations EXCEPT ![k] =
              Tried(version, invocations[k], OwnLastError(invocations, k), resp)]
    /\ UNCHANGED <<hvars, nvars, tvars, rvars, avars, svars, bvars>>

ProcessAndReplyOf(k) ==
    /\ invocations[k].pc = "process"
    /\ \E now1 \in Clock, now2 \in Clock :
          /\ now1 <= now2
          /\ invocations' = [invocations EXCEPT ![k] =
                Processed(version, invocations[k], now1, now2)]
    /\ UNCHANGED <<hvars, nvars, tvars, rvars, avars, svars, bvars>>

NextTwo ==
    \E k \in Callers :
        \/ ValidateConfigOf(k)
        \/ TestConnectionOf(k)
        \/ TryMarketplaceOf(k)
        \/ ProcessAndReplyOf(k)

SpecTwo == InitTwo /\ [][NextTwo]_vars

----------------------------------------------------------------------------
(* SpecVersions: the two versions of crawlVisionAction.handler side by side, invocation 1
   running the text()+JSON.parse version and invocation 2 the response.json() version,
   each request of the one coming back with what the same request of the other came
   back with, and both reading the same clock. *)

VersionOf(k) == IF k = 1 THEN "text_parse" ELSE "json"

InitVersions ==
    /\ version = "text_parse"
    /\ HandlerOff
    /\ NormOff
    /\ RepeatOff /\ RunOff /\ ActionsOff /\ ServerOff /\ ButtonOff
    /\ invocations = [k \in Callers |-> Called]

\* validateFirecrawlConfig, with the same configuration for both
ValidateBoth ==
    /\ \E k \in Callers : invocations[k].pc = "validate"
    /\ \E outcome \in ConfigOutcomes :
          invocations' = [k \in Callers |->
              IF invocations[k].pc = "validate"
              THEN [invocations[k] EXCEPT !.pc = IF outcome = "valid" THEN "probe" ELSE "thrown"]
              ELSE invocations[k]]
    /\ UNCHANGED <<hvars, nvars, tvars, rvars, avars, svars, bvars>>

\* the probe, with the same outcome for both
ProbeBoth ==
    /\ \E k \in Callers : invocations[k].pc = "probe"
    /\ \E outcome \in ProbeOutcomes :
          invocations' = [k \in Callers |->
              IF invocations[k].pc = "probe" THEN Probed(invocations[k], outcome)
              ELSE invocations[k]]
    /\ UNCHANGED <<hvars, nvars, tvars, rvars, avars, svars, bvars>>

\* the next marketplace, with the same response for both
TryBoth ==
    /\ \E k \in Callers : invocations[k].pc = "loop"
    /\ \E resp \in ResponseKinds :
          invocations' = [k \in Callers |->
              IF invocations[k].pc = "loop"
              THEN Tried(VersionOf(k), invocations[k], invocations[k].lastError, resp)
              ELSE invocations[k]]
    /\ UNCHANGED <<hvars, nvars, tvars, rvars, avars, svars, bvars>>

\* processListings and the reply, with the same clock readings for both
ProcessBoth ==
    /\ \E k \in Callers : invocations[k].pc = "process"
    /\ \E now1 \in Clock, now2 \in Clock :
          /\ now1 <= now2
          /\ invocations' = [k \in Callers |->
                IF invocations[k].pc = "process"
                THEN Processed(VersionOf(k), invocations[k], now1, now2)
                ELSE invocations[k]]
    /\ UNCHANGED <<hvars, nvars, tvars, rvars, avars, svars, bvars>>

NextVersions == ValidateBoth \/ ProbeBoth \/ TryBoth \/ ProcessBoth

SpecVersions == InitVersions /\ [][NextVersions]_vars

\* a processed listing without the scrapedAt of its metadata
WithoutScrapedAt(listing) ==
    [listing EXCEPT !.metadata = [@ EXCEPT !.scrapedAt = Undefined]]

\* two replies say the same but for their message text and metadata.scrapedAt
SameReply(x, y) ==
    /\ x.kind = y.kind
    /\ x.kind = "Failed to connect to Firecrawl API" => x.error = y.error
    /\ x.kind = "Successfully crawled" =>
          /\ x.marketplace = y.marketplace
          /\ x.totalListings = y.totalListings
          /\ x.processedListings = y.processedListings
          /\ Len(x.sampleListings) = Len(y.sampleListings)
          /\ \A i \in 1..Len(x.sampleListings) :
                WithoutScrapedAt(x.sampleListings[i]) = WithoutScrapedAt(y.sampleListings[i])

\* the response makes its target the winner
Wins(resp) == ContainsListing(resp) /\ resp.data.success

\* the targets of h's own responses that failed
FailedTargets(h) == {i \in 1..Len(h.responses) : IsTargetFailure(h.responses[i])}

\* what an invocation that ran alone on h's own probe outcome and responses would hold:
\* its requests, its winner, its lastError, its reply and its return value
AsIfAlone(h) ==
    /\ h.requests = (IF h.probe = "none" THEN <<>> ELSE <<ProbeUrl>>)
                        \o [i \in 1..Len(h.responses) |-> Marketplaces[i]]
    /\ \A i \in 1..(Len(h.responses) - 1) : ~Wins(h.responses[i])
    /\ IF h.responses # <<>> /\ Wins(Last(h.responses))
       THEN /\ h.successfulData # JNull
            /\ h.successfulData.marketplace = Marketplaces[Len(h.responses)]
            /\ h.successfulData.listings = Last(h.responses).data.data.listings.items
       ELSE h.successfulData = JNull
    /\ IF FailedTargets(h) = {}
       THEN h.lastError = JNull
       ELSE h.lastError # JNull /\ h.lastError.name = Marketplaces[Greatest(FailedTargets(h))]
    /\ IF h.pc # "returned"
       THEN h.replies = <<>> /\ h.ret = "none"
       ELSE /\ Len(h.replies) = 1
            /\ CASE h.responses = <<>> ->
                        /\ h.replies[1].kind = "Failed to connect to Firecrawl API"
                        /\ h.ret = "false"
                 [] h.responses # <<>> /\ h.successfulData = JNull ->
                        /\ Len(h.responses) = NumMarketplaces
                        /\ h.replies[1] = UnableToCrawlReply(h.lastError)
                        /\ h.ret = "false"
                 [] OTHER ->
                        /\ h.replies[1].kind = "Successfully crawled"
                        /\ h.replies[1].marketplace = h.successfulData.marketplace
                        /\ h.ret = "true"

\* C14: invocations of the handler share no mutable state: under every interleaving of two
\* invocations (one of which may have completed before the other begins) each one's
\* requests, winner, lastError, reply and return value are those of a run alone on its own
\* responses; each issues its own requests, also to targets the other has asked already.
C14_InvocationsIndependent == \A k \in Callers : AsIfAlone(invocations[k])

\* C14 witness: the first invocation was exhausted with a recorded error, and the second,
\* asking the same targets again, won at its second target with no error recorded.
C14_Witness ==
    /\ invocations[1].pc = "returned"
    /\ invocations[1].ret = "false"
    /\ Len(invocations[1].responses) = NumMarketplaces
    /\ invocations[1].lastError # JNull
    /\ invocations[2].pc = "returned"
    /\ invocations[2].ret = "true"
    /\ invocations[2].requests = <<ProbeUrl, Marketplaces[1], Marketplaces[2]>>
    /\ invocations[2].lastError = JNull

----------------------------------------------------------------------------
(* SpecRun: successive calls of runFirecrawl against one database *)

\* testListing.domainName
TestDomain == "test-domain.eth"

\* a row of domainListing; id stands for the row's identity and its createdAt
Row(id, domainName, source) == [id |-> id, domainName |-> domainName, source |-> source]

\* the tables the runs can start from; domainName is the table's unique key
InitialStores ==
    {<<>>, <<Row(1, "other.eth", "seed")>>, <<Row(1, TestDomain, "seed")>>,
     <<Row(1, "other.eth", "seed"), Row(2, TestDomain, "seed")>>}

\* mutant: the listing is created without looking for an existing row
UpsertAlwaysCreates(rows, domainName, source) ==
    Append(rows, Row(Len(rows) + 1, domainName, source))

\* prisma.domainListing.upsert({ where: { domainName }, update, create })
Upsert(rows, domainName, source) ==
    IF \E i \in 1..Len(rows) : rows[i].domainName = domainName
    THEN [i \in 1..Len(rows) |->
             IF rows[i].domainName = domainName
             THEN Row(rows[i].id, domainName, source) ELSE rows[i]]
    ELSE Append(rows, Row(Len(rows) + 1, domainName, source))

\* take: 5
FindManyTake == 5

RECURSIVE Reverse(_)
Reverse(q) == IF q = <<>> THEN <<>> ELSE Append(Reverse(Tail(q)), Head(q))

\* prisma.domainListing.findMany({ orderBy: { createdAt: 'desc' }, take: 5 })
FindMany(rows) ==
    LET newestFirst == Reverse(rows)
    IN  SubSeq(newestFirst, 1,
               IF Len(newestFirst) < FindManyTake THEN Len(newestFirst) ELSE FindManyTake)

Failure(error) == [success |-> FALSE, error |-> error]
Success(listings) == [success |-> TRUE, listings |-> listings]

\* process.env.FIRECRAWL_API_KEY
ApiKeys == {"set", "unset"}

\* what the scrape request can come back with: fetch rejects, a non-success status, a
\* success status whose body is not JSON, is the JSON null, or is an object
ScrapeOutcomes == {"fetch_rejects", "not_ok", "invalid_json", "null_body", "object"}

\* a database call resolves or rejects
DbOutcomes == {"resolves", "rejects"}

InitRun ==
    /\ version \in Versions
    /\ HandlerOff
    /\ NormOff
    /\ RepeatOff /\ ConcurrentOff /\ ActionsOff /\ ServerOff /\ ButtonOff
    /\ store \in InitialStores
    /\ rpc = "idle"
    /\ client = "none"
    /\ result = "none"
    /\ calls = <<>>
    /\ finished = <<>>

\* the call, and the API key check
CheckApiKey ==
    /\ rpc = "idle"
    /\ Len(finished) < MaxCalls
    /\ \E key \in ApiKeys :
          IF key = "unset"
          THEN /\ result' = Failure("FIRECRAWL_API_KEY not set")
               /\ rpc' = "return"
          ELSE /\ rpc' = "fetch"
               /\ UNCHANGED result
    /\ UNCHANGED <<store, client, calls, finished>>
    /\ UNCHANGED <<hvars, nvars, tvars, cvars, avars, svars, bvars>>

\* a call the run made, and how it ended
Call(name, ended) == [call |-> name, ended |-> ended]

\* mutant: the status of the response is not looked at
ResponseOkAlways(outcome) == outcome # "fetch_rejects"

\* response.ok
ResponseOk(outcome) == outcome \in {"invalid_json", "null_body", "object"}

\* mutant: $disconnect is the last statement of the try block, not a finally block
AfterDbErrorNoFinally == "return"

\* where a run goes from catch (dbError): the finally block
AfterDbError == "finally"

\* await fetch(...), the body, new PrismaClient() and the listings of the body
Scrape ==
    /\ rpc = "fetch"
    /\ \E outcome \in ScrapeOutcomes :
          IF outcome = "fetch_rejects"
          THEN /\ calls' = Append(calls, Call("fetch", outcome))
               /\ result' = Failure("fetch failed")
               /\ rpc' = "return"
               /\ UNCHANGED client
          ELSE IF ~ResponseOk(outcome)
          THEN /\ calls' = Append(calls, Call("fetch", outcome))
               /\ result' = Failure("API call failed")
               /\ rpc' = "return"
               /\ UNCHANGED client
          ELSE IF outcome = "invalid_json"
          THEN /\ calls' = Append(calls, Call("fetch", outcome))
               /\ result' = Failure("invalid json")
               /\ rpc' = "return"
               /\ UNCHANGED client
          ELSE IF outcome = "null_body"
          \* data.data of null throws after the client was created
          THEN /\ calls' = calls \o <<Call("fetch", outcome), Call("new PrismaClient", "created")>>
               /\ client' = "created"
               /\ result' = Failure("TypeError")
               /\ rpc' = "return"
          ELSE /\ calls' = calls \o <<Call("fetch", outcome), Call("new PrismaClient", "created")>>
               /\ client' = "created"
               /\ rpc' = "upsert"
               /\ UNCHANGED result
    /\ UNCHANGED <<store, finished>>
    /\ UNCHANGED <<hvars, nvars, tvars, cvars, avars, svars, bvars>>

\* await prisma.domainListing.upsert(...): the client connects on its first query; a
\* rejected upsert may be a failed connection or a failed query
UpsertTestListing ==
    /\ rpc = "upsert"
    /\ \E outcome \in DbOutcomes :
          /\ calls' = Append(calls, Call("upsert", outcome))
          /\ IF outcome = "resolves"
             THEN /\ store' = Upsert(store, TestDomain, "vision.io")
                  /\ client' = "connected"
                  /\ rpc' = "findMany"
                  /\ UNCHANGED result
             ELSE /\ result' = Failure("upsert failed")
                  /\ client' \in {"created", "connected"}
                  /\ rpc' = AfterDbError
                  /\ UNCHANGED store
    /\ UNCHANGED finished
    /\ UNCHANGED <<hvars, nvars, tvars, cvars, avars, svars, bvars>>

\* await prisma.domainListing.findMany(...), and the return statements of the block
FindExisting ==
    /\ rpc = "findMany"
    /\ \E outcome \in DbOutcomes :
          /\ result' = IF outcome = "resolves" THEN Success(FindMany(store))
                       ELSE Failure("findMany failed")
          /\ rpc' = IF outcome = "resolves" THEN "finally" ELSE AfterDbError
          /\ calls' = Append(calls, Call("findMany", outcome))
    /\ UNCHANGED <<store, client, finished>>
    /\ UNCHANGED <<hvars, nvars, tvars, cvars, avars, svars, bvars>>

\* finally { await prisma.$disconnect(); }
Disconnect ==
    /\ rpc = "finally"
    /\ client' = "disconnected"
    /\ calls' = Append(calls, Call("$disconnect", "resolves"))
    /\ rpc' = "return"
    /\ UNCHANGED <<store, result, finished>>
    /\ UNCHANGED <<hvars, nvars, tvars, cvars, avars, svars, bvars>>

\* the promise of runFirecrawl resolves with the result; the locals are gone
Return ==
    /\ rpc = "return"
    /\ finished' = Append(finished, [result |-> result, client |-> client, calls |-> calls])
    /\ rpc' = "idle"
    /\ client' = "none"
    /\ result' = "none"
    /\ calls' = <<>>
    /\ UNCHANGED store
    /\ UNCHANGED <<hvars, nvars, tvars, cvars, avars, svars, bvars>>

NextRun == CheckApiKey \/ Scrape \/ UpsertTestListing \/ FindExisting \/ Disconnect \/ Return

SpecRun == InitRun /\ [][NextRun]_vars

\* the rows of the store that carry the test listing's domain name
TestRows == {i \in 1..Len(store) : store[i].domainName = TestDomain}

SuccessfulRuns == {i \in 1..Len(finished) : finished[i].result.success}

\* C15: persistence is an upsert keyed by domain name: the store never holds more than one
\* record with domainName 'test-domain.eth', and once a run has succeeded it holds exactly
\* one, whether that run found the record there or not.
C15_UpsertKeepsOneTestDomain ==
    /\ Cardinality(TestRows) <= 1
    /\ SuccessfulRuns # {} => Cardinality(TestRows) = 1

\* C15 witness: two runs succeeded, the second finding the record of the first, and the
\* store holds one record of that name.
C15_Witness ==
    /\ Len(finished) = 2
    /\ SuccessfulRuns = {1, 2}
    /\ Cardinality(TestRows) = 1

----------------------------------------------------------------------------
(* SpecActions: one invocation of ensApiAction.handler or of testCrawlAction.handler *)

\* characters of the enumerated message texts: a blank, the point, letters
MsgChars == {" ", ".", "e", "t", "h", "E"}

\* [a-zA-Z0-9-]
LabelChars == {"e", "t", "h", "E"}

DotEth == <<".", "e", "t", "h">>

\* message.content?.text: missing, a text, or (loosely typed) a number
MessageTexts ==
    {Undefined, JNumber(1)} \cup {JString(s) : s \in UNION {[1..n -> MsgChars] : n \in 0..MaxMsgLen}}

RECURSIVE LabelRunEnd(_, _)
\* [a-zA-Z0-9-]+ is greedy: from a label character at i, the last index of the run
LabelRunEnd(s, i) ==
    IF i + 1 <= Len(s) /\ s[i + 1] \in LabelChars THEN LabelRunEnd(s, i + 1) ELSE i

RECURSIVE DomainMatchAnyLabel(_, _)
\* mutant: the pattern without the suffix, /([a-zA-Z0-9-]+)/
DomainMatchAnyLabel(s, i) ==
    IF i > Len(s) THEN <<>>
    ELSE IF s[i] \in LabelChars THEN SubSeq(s, i, LabelRunEnd(s, i))
    ELSE DomainMatchAnyLabel(s, i + 1)

RECURSIVE DomainMatch(_, _)
\* messageText.match(/([a-zA-Z0-9-]+\.eth)/)[1] tried from position i on, or <<>> for a
\* null match: the point is no label character, so a run of label characters matches only
\* when '.eth' follows its end
DomainMatch(s, i) ==
    IF i > Len(s) THEN <<>>
    ELSE IF s[i] \in LabelChars
            /\ LabelRunEnd(s, i) + Len(DotEth) <= Len(s)
            /\ SubSeq(s, LabelRunEnd(s, i) + 1, LabelRunEnd(s, i) + Len(DotEth)) = DotEth
         THEN SubSeq(s, i, LabelRunEnd(s, i) + Len(DotEth))
    ELSE DomainMatch(s, i + 1)

\* domainName.toLowerCase()
ToLowerCase(s) == [i \in 1..Len(s) |-> IF s[i] = "E" THEN "e" ELSE s[i]]

\* message.content?.text || ''
MessageTextOf(text) == IF text = Undefined THEN JString(<<>>) ELSE text

EnsApiUrl == "https://api.thegraph.com/subgraphs/name/ensdomains/ens"

\* what the one request can come back with
EnsOutcomes ==
    {"fetch_rejects", "http_error", "invalid_json", "null_body", "errors", "no_data",
     "domain_null", "domain_without_events", "domain"}

\* the reply and the return value for each
EnsResult(outcome) ==
    CASE outcome \in {"no_data", "domain_null"} -> [reply |-> "not found in the ENS registry", ret |-> "false"]
      [] outcome = "domain" -> [reply |-> "ENS Domain Information", ret |-> "true"]
      \* throw new Error(...), a rejected fetch or json(), a TypeError: catch (error)
      [] OTHER -> [reply |-> "Error looking up ENS domain", ret |-> "false"]

InitActions ==
    /\ version \in Versions
    /\ HandlerOff
    /\ NormOff
    /\ RepeatOff /\ ConcurrentOff /\ RunOff /\ ServerOff /\ ButtonOff
    /\ \/ action = "ENS_API_LOOKUP" /\ messageText \in MessageTexts
       \/ action = "TEST_CRAWL_VISION" /\ messageText = Undefined
    /\ apc = "start"
    /\ outbound = <<>>
    /\ answers = <<>>
    /\ aret = "none"

\* ensApiAction.handler up to its await: the name in the message, and the request
EnsLookup ==
    /\ action = "ENS_API_LOOKUP"
    /\ apc = "start"
    /\ IF MessageTextOf(messageText).t # "string"
       \* a number has no match method: TypeError, catch (error)
       THEN /\ answers' = Append(answers, "Error looking up ENS domain")
            /\ aret' = "false"
            /\ apc' = "returned"
            /\ UNCHANGED outbound
       ELSE \E domainName \in {DomainMatch(MessageTextOf(messageText).s, 1)} :
               IF domainName = <<>>
               THEN /\ answers' = Append(answers, "Please provide an ENS domain name")
                    /\ aret' = "false"
                    /\ apc' = "returned"
                    /\ UNCHANGED outbound
               ELSE /\ outbound' = Append(outbound, [url |-> EnsApiUrl,
                                                     name |-> ToLowerCase(domainName),
                                                     outcome |-> "pending"])
                    /\ apc' = "fetch"
                    /\ UNCHANGED <<answers, aret>>
    /\ UNCHANGED <<action, messageText>>
    /\ UNCHANGED <<hvars, nvars, tvars, cvars, rvars, svars, bvars>>

\* the rest of ensApiAction.handler, once the request has settled
EnsResponse ==
    /\ action = "ENS_API_LOOKUP"
    /\ apc = "fetch"
    /\ \E outcome \in EnsOutcomes :
          /\ outbound' = [outbound EXCEPT ![Len(outbound)].outcome = outcome]
          /\ answers' = Append(answers, EnsResult(outcome).reply)
          /\ aret' = EnsResult(outcome).ret
    /\ apc' = "returned"
    /\ UNCHANGED <<action, messageText>>
    /\ UNCHANGED <<hvars, nvars, tvars, cvars, rvars, svars, bvars>>

\* the characters of ' ETH'
BlankETH == <<" ", "E", "T", "H">>

RECURSIVE IndexOf(_, _, _)
\* the first position from i on at which pat occurs in s, or 0
IndexOf(s, pat, i) ==
    IF i + Len(pat) - 1 > Len(s) THEN 0
    ELSE IF SubSeq(s, i, i + Len(pat) - 1) = pat THEN i
    ELSE IndexOf(s, pat, i + 1)

\* s.replace(pat, ''): the first occurrence of pat removed
ReplaceFirst(s, pat) ==
    LET i == IndexOf(s, pat, 1)
    IN  IF i = 0 THEN s ELSE SubSeq(s, 1, i - 1) \o SubSeq(s, i + Len(pat), Len(s))

\* parseFloat(text): the value of the longest numeral the text starts with, or NaN
ParseFloatText(s) ==
    IF FirstDigit(s, 1) = 1 THEN JNumber(ParseFloat(RegexMatch(s))) ELSE [t |-> "NaN"]

Sample(domainName, price, floorPrice, isBelowFloor) ==
    [domainName |-> domainName, price |-> price, floorPrice |-> floorPrice,
     isBelowFloor |-> isBelowFloor]

\* mutant: defi.eth is listed above its floor and still flagged
SampleListingsStaleFlag ==
    <<Sample("crypto.eth", <<"2", ".", "5">> \o BlankETH, <<"2", ".", "0">> \o BlankETH, FALSE),
      Sample("defi.eth", <<"2", ".", "8">> \o BlankETH, <<"2", ".", "0">> \o BlankETH, TRUE),
      Sample("nft.eth", <<"3", ".", "2">> \o BlankETH, <<"3", ".", "0">> \o BlankETH, FALSE),
      Sample("web3.eth", <<"1", ".", "5">> \o BlankETH, <<"2", ".", "0">> \o BlankETH, TRUE),
      Sample("dao.eth", <<"4", ".", "1">> \o BlankETH, <<"4", ".", "0">> \o BlankETH, FALSE)>>

\* const sampleListings = [...]
SampleListings ==
    <<Sample("crypto.eth", <<"2", ".", "5">> \o BlankETH, <<"2", ".", "0">> \o BlankETH, FALSE),
      Sample("defi.eth", <<"1", ".", "8">> \o BlankETH, <<"2", ".", "0">> \o BlankETH, TRUE),
      Sample("nft.eth", <<"3", ".", "2">> \o BlankETH, <<"3", ".", "0">> \o BlankETH, FALSE),
      Sample("web3.eth", <<"1", ".", "5">> \o BlankETH, <<"2", ".", "0">> \o BlankETH, TRUE),
      Sample("dao.eth", <<"4", ".", "1">> \o BlankETH, <<"4", ".", "0">> \o BlankETH, FALSE)>>

\* sampleListings.map(listing => ({ ...listing, price: parseFloat(...), floorPrice:
\* parseFloat(...), metadata: {...} })), read at the clock values now1 (listedAt) and now2
ProcessSamples(samples, now1, now2) ==
    [i \in 1..Len(samples) |->
        [domainName |-> samples[i].domainName,
         price |-> ParseFloatText(ReplaceFirst(samples[i].price, BlankETH)),
         floorPrice |-> ParseFloatText(ReplaceFirst(samples[i].floorPrice, BlankETH)),
         isBelowFloor |-> samples[i].isBelowFloor,
         listedAt |-> IsoString(now1),
         metadata |-> [source |-> "test-crawl", scrapedAt |-> IsoString(now2)]]]

\* testCrawlAction.handler: it awaits nothing
TestCrawl ==
    /\ action = "TEST_CRAWL_VISION"
    /\ apc = "start"
    /\ \E now1 \in Clock, now2 \in Clock :
          /\ now1 <= now2
          /\ \E processedListings \in {ProcessSamples(SampleListings, now1, now2)} :
             \E dealsBelowFloor \in {SelectSeq(processedListings, LAMBDA l : l.isBelowFloor)} :
                answers' = Append(answers,
                                  [kind |-> "Test crawl completed successfully",
                                   totalListings |-> Len(processedListings),
                                   dealsBelowFloor |-> Len(dealsBelowFloor),
                                   sampleListings |-> processedListings,
                                   deals |-> dealsBelowFloor])
    /\ aret' = "true"
    /\ apc' = "returned"
    /\ UNCHANGED <<action, messageText, outbound>>
    /\ UNCHANGED <<hvars, nvars, tvars, cvars, rvars, svars, bvars>>

NextActions == EnsLookup \/ EnsResponse \/ TestCrawl

SpecActions == InitActions /\ [][NextActions]_vars

\* the text holds a name: a run of label characters with '.eth' right after it
ContainsEnsName(text) ==
    /\ text.t = "string"
    /\ \E i \in 1..Len(text.s), j \in 1..Len(text.s) :
          /\ i <= j
          /\ \A l \in i..j : text.s[l] \in LabelChars
          /\ j + 4 <= Len(text.s)
          /\ text.s[j + 1] = "." /\ text.s[j + 2] = "e" /\ text.s[j + 3] = "t" /\ text.s[j + 4] = "h"

\* C16: an ENS_API_LOOKUP invocation issues at most one outbound request, and only to the
\* ENS API: none, with return value false, when the message text holds no '<label>.eth'
\* name; exactly one, with return value false and no other source tried, when the request
\* ends in an HTTP error, a GraphQL errors field or a missing domain.
C16_OneRequestNoFallback ==
    action = "ENS_API_LOOKUP" =>
        /\ Len(outbound) <= 1
        /\ \A i \in 1..Len(outbound) : outbound[i].url = EnsApiUrl
        /\ ~ContainsEnsName(messageText) =>
              /\ outbound = <<>>
              /\ apc = "returned" => aret = "false"
        /\ ContainsEnsName(messageText) /\ apc # "start" => Len(outbound) = 1
        /\ (apc = "returned" /\ outbound # <<>>
              /\ outbound[1].outcome \in {"http_error", "errors", "no_data", "domain_null"}) =>
              aret = "false"

\* C16 witness: a message with a name got its one request answered by an HTTP error and
\* the handler returned false.
C16_Witness ==
    /\ action = "ENS_API_LOOKUP"
    /\ apc = "returned"
    /\ Len(outbound) = 1
    /\ outbound[1].outcome = "http_error"
    /\ aret = "false"

\* the reply of the test crawl
TestReply == answers[1]

\* C20: in the reply of TEST_CRAWL_VISION each of the five records has the hardcoded
\* isBelowFloor equal to (parsed price < parsed floorPrice), and the deals reported are
\* exactly the flagged records, defi.eth and web3.eth.
C20_SamplesKeepFloorInvariant ==
    (action = "TEST_CRAWL_VISION" /\ apc = "returned") =>
        /\ aret = "true"
        /\ Len(TestReply.sampleListings) = 5
        /\ \A i \in 1..Len(TestReply.sampleListings) :
              LET l == TestReply.sampleListings[i]
              IN  /\ l.price.t = "number" /\ l.floorPrice.t = "number"
                  /\ l.isBelowFloor <=> (l.price.n < l.floorPrice.n)
        /\ DomainNames(TestReply.deals) = <<"defi.eth", "web3.eth">>
        /\ TestReply.dealsBelowFloor = 2

\* C20 witness: the test crawl has replied, with web3.eth at 1.5 under its floor of 2.0.
C20_Witness ==
    /\ action = "TEST_CRAWL_VISION"
    /\ apc = "returned"
    /\ TestReply.deals[2].domainName = "web3.eth"
    /\ TestReply.deals[2].price.n * 4 = TestReply.deals[2].floorPrice.n * 3

----------------------------------------------------------------------------
(* One invocation of the handler: the replies and the return value *)

\* C22: once configuration validation has passed, an invocation calls the callback
\* exactly once, when it returns, and it returns true if and only if that one reply is
\* the success reply for the winning target; the replies of a connectivity failure, of
\* exhaustion and of the outer catch go with false.
C22_OneReplyTrueIffSuccess ==
    /\ pc \in {"probe", "loop", "process"} => (replies = <<>> /\ ret = "none")
    /\ pc = "returned" =>
          /\ Len(replies) = 1
          /\ ret \in {"true", "false"}
          /\ ret = "true" <=> replies[1].kind = "Successfully crawled"
          /\ ret = "true" =>
                /\ successfulData # JNull
                /\ replies[1].marketplace = successfulData.marketplace
          /\ ret = "false" =>
                replies[1].kind \in {"Failed to connect to Firecrawl API", "Unable to crawl",
                                     "Error crawling Vision.io"}

\* C22 witness: a winner was found, processListings threw, and the invocation returned
\* false with the error reply of the outer catch as its only reply.
C22_Witness ==
    /\ pc = "returned"
    /\ successfulData # JNull
    /\ replies = <<ErrorReply>>
    /\ ret = "false"


\* ------------------------------------------------------------------------------------
\* The HTTP server (eliza-app/run-firecrawl.ts, from line 160)

JBool(b) == [t |-> "boolean", b |-> b]

\* the truthiness of a JavaScript value
Truthy(v) ==
    CASE v.t \in {"undefined", "null"} -> FALSE
      [] v.t = "string" -> v.s # ""
      [] v.t = "number" -> v.n # 0
      [] v.t = "boolean" -> v.b
      [] OTHER -> TRUE

\* the services elizaRuntime.getService is asked for
Services == {"firecrawl", "marketAnalysis", "twitter"}

\* the values a field of the request body may have; Undefined is an absent field
FieldValues == {Undefined, JNull, JString(""), JString("vitalik.eth"), JNumber(0)}

\* req.body.queryType
QueryTypes == {Undefined, JString("valuation"), JString("analysis"), JString("general")}

\* req.body.context?.tweetId
TweetIds == {Undefined, JString("t1")}

\* how an awaited service method ends
ServiceOutcomes == {"resolves", "rejects"}

DealNames == {"a.eth", "b.eth"}

\* the arrays getDealsBelowFloor may resolve with
DealLists == UNION {[1..n -> DealNames] : n \in 0..MaxDeals}

Analysis(isGoodBuy) == [t |-> "object", isGoodBuy |-> isGoodBuy]

\* what analyzeSale may resolve with
AnalysisValues ==
    {Analysis(JBool(TRUE)), Analysis(JBool(FALSE)), Analysis(Undefined), Analysis(JNumber(1)),
     JNull}

\* a call of a service method, and how it ended
ServiceCall(method, arg, ended) == [method |-> method, arg |-> arg, ended |-> ended]

\* res.status(status).json(body), and res.json(body) with status 200
Response(status, body) == [status |-> status, body |-> body]

\* mutant: the error response of a handler carries the results collected so far
ErrorResponsePartial(message) == Response(500, [error |-> message, results |-> results])

\* res.status(500).json({ error: ... })
ErrorResponse(message) == Response(500, [error |-> message])

\* mutant: a request field is never found missing
MissingNever(field) == FALSE

\* !domainName, !query
Missing(field) == ~Truthy(field)

\* mutant: every analysed deal is posted
IsGoodBuyAlways(analysis) == TRUE

\* if (analysis.isGoodBuy)
IsGoodBuy(analysis) == Truthy(analysis.isGoodBuy)

\* mutant: app.listen is called without awaiting initializeEliza
CanListenAtOnce == TRUE

\* await initializeEliza() before app.listen
CanListen == runtime = "initialized"

InitServer ==
    /\ version \in Versions
    /\ HandlerOff
    /\ NormOff
    /\ RepeatOff /\ ConcurrentOff /\ RunOff /\ ActionsOff /\ ButtonOff
    /\ srv = "starting"
    /\ exitCode = Undefined
    /\ runtime = "unset"
    /\ endpoint = "none"
    /\ reqBody = Undefined
    /\ available = {}
    /\ epc = "idle"
    /\ deals = <<>>
    /\ results = <<>>
    /\ serviceCalls = <<>>
    /\ res = Undefined

\* elizaRuntime = new AgentRuntime(...); a throw is caught and the process exits
CreateRuntime ==
    /\ srv = "starting"
    /\ runtime = "unset"
    /\ \E outcome \in {"returns", "throws"} :
          IF outcome = "returns"
          THEN /\ runtime' = "created"
               /\ UNCHANGED <<srv, exitCode>>
          ELSE /\ srv' = "exited"
               /\ exitCode' = JNumber(1)
               /\ UNCHANGED runtime
    /\ UNCHANGED <<endpoint, reqBody, available, epc, deals, results, serviceCalls, res>>
    /\ UNCHANGED <<hvars, nvars, tvars, cvars, rvars, avars, bvars>>

\* await elizaRuntime.initialize(); a rejection is caught and the process exits
InitializeRuntime ==
    /\ srv = "starting"
    /\ runtime = "created"
    /\ \E outcome \in ServiceOutcomes :
          IF outcome = "resolves"
          THEN /\ runtime' = "initialized"
               /\ UNCHANGED <<srv, exitCode>>
          ELSE /\ srv' = "exited"
               /\ exitCode' = JNumber(1)
               /\ UNCHANGED runtime
    /\ UNCHANGED <<endpoint, reqBody, available, epc, deals, results, serviceCalls, res>>
    /\ UNCHANGED <<hvars, nvars, tvars, cvars, rvars, avars, bvars>>

\* app.listen(PORT, ...)
Listen ==
    /\ srv = "starting"
    /\ CanListen
    /\ srv' = "listening"
    /\ UNCHANGED <<exitCode, runtime, endpoint, reqBody, available, epc, deals, results,
                   serviceCalls, res>>
    /\ UNCHANGED <<hvars, nvars, tvars, cvars, rvars, avars, bvars>>

\* POST /api/valuate-domain
ValuateDomain ==
    /\ srv = "listening"
    /\ epc = "idle"
    /\ \E domainName \in FieldValues, found \in SUBSET Services, outcome \in ServiceOutcomes :
          /\ endpoint' = "valuate-domain"
          /\ reqBody' = [domainName |-> domainName]
          /\ available' = found
          /\ IF Missing(domainName)
             THEN /\ res' = Response(400, [error |-> "Domain name is required"])
                  /\ UNCHANGED serviceCalls
             ELSE IF "marketAnalysis" \notin found
             THEN /\ res' = ErrorResponse("Market analysis service not available")
                  /\ UNCHANGED serviceCalls
             ELSE /\ serviceCalls' = <<ServiceCall("valuateDomain", domainName, outcome)>>
                  /\ res' = IF outcome = "resolves"
                            THEN Response(200, [success |-> TRUE, valuation |-> "valuation"])
                            ELSE ErrorResponse("valuateDomain rejected")
    /\ epc' = "done"
    /\ UNCHANGED <<srv, exitCode, runtime, deals, results>>
    /\ UNCHANGED <<hvars, nvars, tvars, cvars, rvars, avars, bvars>>

\* the switch of /api/query: the service method called for a query type, if any
QueryMethod(queryType) ==
    CASE queryType = JString("valuation") -> "valuateDomain"
      [] queryType = JString("analysis") -> "analyzeSale"
      [] OTHER -> "none"

\* POST /api/query
Query ==
    /\ srv = "listening"
    /\ epc = "idle"
    /\ \E query \in FieldValues, queryType \in QueryTypes, tweetId \in TweetIds,
          found \in SUBSET Services, outcome \in ServiceOutcomes, mention \in ServiceOutcomes :
          /\ endpoint' = "query"
          /\ reqBody' = [query |-> query, queryType |-> queryType, tweetId |-> tweetId]
          /\ available' = found
          /\ IF Missing(query)
             THEN /\ res' = Response(400, [error |-> "Query is required"])
                  /\ UNCHANGED serviceCalls
             ELSE IF ~({"marketAnalysis", "twitter"} \subseteq found)
             THEN /\ res' = ErrorResponse("Required services not available")
                  /\ UNCHANGED serviceCalls
             ELSE LET asked == IF QueryMethod(queryType) = "none" THEN <<>>
                               ELSE <<ServiceCall(QueryMethod(queryType), query, outcome)>>
                      failed == asked # <<>> /\ outcome = "rejects"
                      replied == IF ~failed /\ Truthy(tweetId)
                                 THEN <<ServiceCall("respondToMention", tweetId, mention)>>
                                 ELSE <<>>
                  IN  /\ serviceCalls' = asked \o replied
                      /\ res' = IF failed THEN ErrorResponse("service rejected")
                                ELSE IF replied # <<>> /\ mention = "rejects"
                                THEN ErrorResponse("respondToMention rejected")
                                ELSE Response(200, [success |-> TRUE, response |-> "response"])
    /\ epc' = "done"
    /\ UNCHANGED <<srv, exitCode, runtime, deals, results>>
    /\ UNCHANGED <<hvars, nvars, tvars, cvars, rvars, avars, bvars>>

\* POST /api/analyze-deals up to the loop: the three services and getDealsBelowFloor
AnalyzeDeals ==
    /\ srv = "listening"
    /\ epc = "idle"
    /\ \E found \in SUBSET Services, outcome \in ServiceOutcomes, listed \in DealLists :
          /\ endpoint' = "analyze-deals"
          /\ available' = found
          /\ IF found # Services
             THEN /\ res' = ErrorResponse("Required services not available")
                  /\ epc' = "done"
                  /\ UNCHANGED <<deals, serviceCalls>>
             ELSE IF outcome = "rejects"
             THEN /\ serviceCalls' = <<ServiceCall("getDealsBelowFloor", Undefined, "rejects")>>
                  /\ res' = ErrorResponse("getDealsBelowFloor rejected")
                  /\ epc' = "done"
                  /\ UNCHANGED deals
             ELSE /\ serviceCalls' = <<ServiceCall("getDealsBelowFloor", Undefined, "resolves")>>
                  /\ deals' = listed
                  /\ epc' = "loop"
                  /\ UNCHANGED res
    /\ UNCHANGED <<srv, exitCode, runtime, reqBody, results>>
    /\ UNCHANGED <<hvars, nvars, tvars, cvars, rvars, avars, bvars>>

\* one turn of for (const deal of deals): analyzeSale, postDealAlert for a good buy,
\* results.push; a throw leaves the loop for the catch block
AnalyzeDeal ==
    /\ epc = "loop"
    /\ Len(results) < Len(deals)
    /\ LET deal == deals[Len(results) + 1]
       IN  \E ended \in ServiceOutcomes, analysis \in AnalysisValues, post \in ServiceOutcomes :
              IF ended = "rejects"
              THEN /\ serviceCalls' = Append(serviceCalls, ServiceCall("analyzeSale", deal, "rejects"))
                   /\ res' = ErrorResponse("analyzeSale rejected")
                   /\ epc' = "done"
                   /\ UNCHANGED results
              ELSE IF analysis = JNull
              THEN /\ serviceCalls' = Append(serviceCalls, ServiceCall("analyzeSale", deal, "resolves"))
                   /\ res' = ErrorResponse("TypeError")
                   /\ epc' = "done"
                   /\ UNCHANGED results
              ELSE IF ~IsGoodBuy(analysis)
              THEN /\ serviceCalls' = Append(serviceCalls, ServiceCall("analyzeSale", deal, "resolves"))
                   /\ results' = Append(results, [deal |-> deal, analysis |-> analysis, posted |-> FALSE])
                   /\ UNCHANGED <<res, epc>>
              ELSE IF post = "rejects"
              THEN /\ serviceCalls' = serviceCalls \o <<ServiceCall("analyzeSale", deal, "resolves"),
                                                        ServiceCall("postDealAlert", deal, "rejects")>>
                   /\ res' = ErrorResponse("postDealAlert rejected")
                   /\ epc' = "done"
                   /\ UNCHANGED results
              ELSE /\ serviceCalls' = serviceCalls \o <<ServiceCall("analyzeSale", deal, "resolves"),
                                                        ServiceCall("postDealAlert", deal, "resolves")>>
                   /\ results' = Append(results, [deal |-> deal, analysis |-> analysis, posted |-> TRUE])
                   /\ UNCHANGED <<res, epc>>
    /\ UNCHANGED <<srv, exitCode, runtime, endpoint, reqBody, available, deals>>
    /\ UNCHANGED <<hvars, nvars, tvars, cvars, rvars, avars, bvars>>

\* res.json({ success: true, results }) after the loop
RespondDeals ==
    /\ epc = "loop"
    /\ Len(results) = Len(deals)
    /\ res' = Response(200, [success |-> TRUE, results |-> results])
    /\ epc' = "done"
    /\ UNCHANGED <<srv, exitCode, runtime, endpoint, reqBody, available, deals, results,
                   serviceCalls>>
    /\ UNCHANGED <<hvars, nvars, tvars, cvars, rvars, avars, bvars>>

NextServer ==
    \/ CreateRuntime
    \/ InitializeRuntime
    \/ Listen
    \/ ValuateDomain
    \/ Query
    \/ AnalyzeDeals
    \/ AnalyzeDeal
    \/ RespondDeals

SpecServer == InitServer /\ [][NextServer]_vars

\* the calls of one service method, in order
CallsOf(method) == SelectSeq(serviceCalls, LAMBDA c : c.method = method)

\* the entries of the results array that were posted
PostedResults == SelectSeq(results, LAMBDA r : r.posted)

\* the handler of a request has sent its response
Responded == epc = "done" /\ res # Undefined

\* C21: a valuate-domain request without domainName and a query request without query
\* are answered 400 and no service method is called; with the field present and a
\* required service missing they are answered 500 and no service method is called.
C21_RejectsBeforeAnyServiceCall ==
    /\ endpoint = "valuate-domain" /\ Responded =>
          /\ ~Truthy(reqBody.domainName) => res.status = 400 /\ serviceCalls = <<>>
          /\ Truthy(reqBody.domainName) /\ "marketAnalysis" \notin available =>
                res.status = 500 /\ serviceCalls = <<>>
    /\ endpoint = "query" /\ Responded =>
          /\ ~Truthy(reqBody.query) => res.status = 400 /\ serviceCalls = <<>>
          /\ Truthy(reqBody.query) /\ ~({"marketAnalysis", "twitter"} \subseteq available) =>
                res.status = 500 /\ serviceCalls = <<>>

C21_Witness ==
    /\ endpoint = "valuate-domain"
    /\ Responded
    /\ reqBody.domainName = Undefined
    /\ available = Services
    /\ res.status = 400
    /\ serviceCalls = <<>>

\* C24: when /api/analyze-deals answers with success, results has one entry per deal
\* getDealsBelowFloor returned, in that order; an entry has posted = true exactly when
\* its analysis.isGoodBuy is truthy; and postDealAlert was called once for each posted
\* deal, in order, and for no other deal.
C24_ResultsMatchDeals ==
    endpoint = "analyze-deals" /\ Responded /\ res.status = 200 =>
        /\ res.body.results = results
        /\ Len(results) = Len(deals)
        /\ \A i \in 1..Len(results) :
              /\ results[i].deal = deals[i]
              /\ results[i].posted <=> Truthy(results[i].analysis.isGoodBuy)
        /\ Len(CallsOf("analyzeSale")) = Len(deals)
        /\ Len(CallsOf("postDealAlert")) = Len(PostedResults)
        /\ \A j \in 1..Len(PostedResults) :
              CallsOf("postDealAlert")[j] =
                  ServiceCall("postDealAlert", PostedResults[j].deal, "resolves")

C24_Witness ==
    /\ endpoint = "analyze-deals"
    /\ Responded
    /\ res.status = 200
    /\ deals = <<"a.eth", "a.eth">>
    /\ results[1].posted
    /\ ~results[2].posted
    /\ Len(CallsOf("postDealAlert")) = 1

\* the loop of /api/analyze-deals was left by a throw of analyzeSale or postDealAlert
LoopThrew ==
    /\ endpoint = "analyze-deals"
    /\ Responded
    /\ serviceCalls # <<>>
    /\ serviceCalls[Len(serviceCalls)].method \in {"analyzeSale", "postDealAlert"}
    /\ serviceCalls[Len(serviceCalls)].ended = "rejects"

\* C25: when analyzeSale or postDealAlert throws on the k-th deal, the response is 500
\* with an error message and nothing else; the deals after the k-th were neither
\* analysed nor posted; and the alerts posted for earlier deals stay posted, absent
\* from the response.
C25_ThrowLeavesPostedAlerts ==
    LoopThrew =>
        LET k == Len(CallsOf("analyzeSale"))
        IN  /\ res.status = 500
            /\ DOMAIN res.body = {"error"}
            /\ k = Len(results) + 1
            /\ k <= Len(deals)
            /\ \A i \in 1..k : CallsOf("analyzeSale")[i].arg = deals[i]
            /\ \A j \in 1..Len(PostedResults) :
                  CallsOf("postDealAlert")[j] =
                      ServiceCall("postDealAlert", PostedResults[j].deal, "resolves")
            /\ Len(CallsOf("postDealAlert")) \in {Len(PostedResults), Len(PostedResults) + 1}
            /\ \A j \in 1..Len(CallsOf("postDealAlert")) :
                  j > Len(PostedResults) => CallsOf("postDealAlert")[j].arg = deals[k]

C25_Witness ==
    /\ LoopThrew
    /\ Len(deals) = 2
    /\ Len(results) = 1
    /\ results[1].posted
    /\ CallsOf("postDealAlert") = <<ServiceCall("postDealAlert", deals[1], "resolves")>>
    /\ serviceCalls[Len(serviceCalls)] = ServiceCall("analyzeSale", deals[2], "rejects")
    /\ res.status = 500

\* C26: the server listens only when the runtime has been created and initialized; a
\* failed creation or initialization exits the process with code 1 before it listens,
\* so that no endpoint handler runs with an uninitialized elizaRuntime.
C26_ListensOnlyInitialized ==
    /\ srv = "listening" => runtime = "initialized" /\ exitCode = Undefined
    /\ srv = "exited" =>
          /\ exitCode = JNumber(1)
          /\ runtime # "initialized"
          /\ endpoint = "none"
          /\ serviceCalls = <<>>
          /\ res = Undefined
    /\ endpoint # "none" => srv = "listening" /\ runtime = "initialized"

C26_Witness ==
    /\ srv = "listening"
    /\ runtime = "initialized"
    /\ endpoint = "query"
    /\ Responded
    /\ res.status = 200

\* the runs of runFirecrawl that have a result: the finished ones and the one returning
Runs ==
    {finished[i] : i \in 1..Len(finished)}
        \cup (IF rpc = "return"
              THEN {[result |-> result, client |-> client, calls |-> calls]}
              ELSE {})

\* the names of the calls of a run, in order
CallNames(run) == [i \in 1..Len(run.calls) |-> run.calls[i].call]

\* the calls of a run that reach the database client
DbCalls(run) ==
    {i \in 1..Len(run.calls) :
        run.calls[i].call \in {"new PrismaClient", "upsert", "findMany", "$disconnect"}}

\* C28: runFirecrawl touches the database only after the API key was present and the
\* scrape answered with a success status: with the key unset the run returns
\* {success: false} having made no network request and no database call; with a
\* non-success status it returns {success: false} having made no database call; and
\* every run that ends hands a result object, never an exception, to its caller.
C28_DatabaseOnlyAfterOkScrape ==
    /\ rpc = "idle" => calls = <<>> /\ client = "none"
    /\ \A run \in Runs :
          /\ run.result.success \in BOOLEAN
          /\ run.result = Failure("FIRECRAWL_API_KEY not set") <=> run.calls = <<>>
          /\ run.calls = <<>> => run.client = "none"
          /\ DbCalls(run) # {} =>
                /\ run.calls[1].call = "fetch"
                /\ ResponseOk(run.calls[1].ended)
                /\ \A i \in DbCalls(run) : i > 1
          /\ run.calls # <<>> /\ run.calls[1] = Call("fetch", "not_ok") =>
                /\ Len(run.calls) = 1
                /\ run.client = "none"
                /\ ~run.result.success
          /\ run.result.success => DbCalls(run) # {}

C28_Witness ==
    /\ Len(finished) = 2
    /\ finished[1].calls = <<>>
    /\ ~finished[1].result.success
    /\ finished[2].calls = <<Call("fetch", "not_ok")>>
    /\ ~finished[2].result.success

\* C29: every run that enters the upsert/findMany block awaits $disconnect as its last
\* call, whether the block succeeded, the upsert rejected or findMany rejected, and no
\* run returns with its client still connected.
C29_ClientDisconnectedBeforeReturn ==
    \A run \in Runs :
        /\ run.client # "connected"
        /\ (\E i \in 1..Len(run.calls) : run.calls[i].call = "upsert") =>
              /\ run.calls[Len(run.calls)] = Call("$disconnect", "resolves")
              /\ run.client = "disconnected"
              /\ \A i \in 1..Len(run.calls) :
                    run.calls[i].call = "$disconnect" => i = Len(run.calls)

C29_Witness ==
    /\ Len(finished) = 2
    /\ CallNames(finished[1]) = <<"fetch", "new PrismaClient", "upsert", "$disconnect">>
    /\ finished[1].calls[3].ended = "rejects"
    /\ finished[1].client = "disconnected"
    /\ CallNames(finished[2]) = <<"fetch", "new PrismaClient", "upsert", "findMany", "$disconnect">>
    /\ finished[2].calls[4].ended = "rejects"
    /\ finished[2].client = "disconnected"


\* ------------------------------------------------------------------------------------
\* FirecrawlButton (client/src/components/firecrawl-button.tsx)

\* how the request of a click settles: the body says success, the body says failure or
\* has no success flag, fetch rejects, response.json() rejects, the body is null
FetchOutcomes == {"success", "no_success", "fetch_rejects", "json_rejects", "null_result"}

\* the title of the toast handleFirecrawl shows for an outcome
ToastOf(outcome) ==
    CASE outcome = "success" -> "Firecrawl Successful!"
      [] outcome = "no_success" -> "Firecrawl Failed"
      [] OTHER -> "Error"

\* mutant: the button does not pass isLoading as its disabled prop
ButtonNeverDisabled(loading) == FALSE

\* disabled={isLoading}
ButtonDisabled(loading) == loading

InitButton ==
    /\ version \in Versions
    /\ HandlerOff
    /\ NormOff
    /\ RepeatOff /\ ConcurrentOff /\ RunOff /\ ActionsOff /\ ServerOff
    /\ isLoading = FALSE
    /\ disabled = ButtonDisabled(FALSE)
    /\ inflight = 0
    /\ toasts = <<>>
    /\ clicks = 0

\* a click on the enabled button: handleFirecrawl runs up to its first await; the state
\* update of a click handler is rendered before the next event is dispatched
Click ==
    /\ ~disabled
    /\ clicks < MaxClicks
    /\ clicks' = clicks + 1
    /\ isLoading' = TRUE
    /\ disabled' = ButtonDisabled(TRUE)
    /\ inflight' = inflight + 1
    /\ UNCHANGED toasts
    /\ UNCHANGED <<hvars, nvars, tvars, cvars, rvars, avars, svars>>

\* the request of a click settles: the rest of handleFirecrawl, one toast and the
\* finally block; the render of that update comes later
Settle ==
    /\ inflight > 0
    /\ \E outcome \in FetchOutcomes :
          toasts' = Append(toasts, ToastOf(outcome))
    /\ isLoading' = FALSE
    /\ inflight' = inflight - 1
    /\ UNCHANGED <<disabled, clicks>>
    /\ UNCHANGED <<hvars, nvars, tvars, cvars, rvars, avars, svars>>

\* the component renders again with the current isLoading
Render ==
    /\ disabled # ButtonDisabled(isLoading)
    /\ disabled' = ButtonDisabled(isLoading)
    /\ UNCHANGED <<isLoading, inflight, toasts, clicks>>
    /\ UNCHANGED <<hvars, nvars, tvars, cvars, rvars, avars, svars>>

NextButton == Click \/ Settle \/ Render

SpecButton == InitButton /\ [][NextButton]_vars

\* C27: isLoading is true exactly while the request of a click is pending and false once
\* it has settled, whichever way it settled; every click has shown exactly one toast
\* once its request settled; and at most one request is in flight at any time, the
\* button being disabled whenever isLoading is true.
C27_OneRequestOneToast ==
    /\ inflight \in {0, 1}
    /\ isLoading <=> inflight = 1
    /\ isLoading => disabled
    /\ Len(toasts) = clicks - inflight

C27_Witness ==
    /\ clicks = 3
    /\ inflight = 1
    /\ isLoading
    /\ toasts = <<"Error", "Firecrawl Failed">>


\* C23: the text()+JSON.parse version and the response.json() version of the handler,
\* given the same probe outcome and the same outcome for each target, are at the same
\* place of the handler, have issued the same requests in the same order, hold the same
\* winner and return the same boolean; their replies differ at most in message text and
\* in metadata.scrapedAt.
C23_VersionsAgree ==
    /\ invocations[1].pc = invocations[2].pc
    /\ invocations[1].requests = invocations[2].requests
    /\ invocations[1].successfulData = invocations[2].successfulData
    /\ invocations[1].ret = invocations[2].ret
    /\ invocations[1].lastError = JNull <=> invocations[2].lastError = JNull
    /\ Len(invocations[1].replies) = Len(invocations[2].replies)
    /\ \A i \in 1..Len(invocations[1].replies) :
          SameReply(invocations[1].replies[i], invocations[2].replies[i])

C23_Witness ==
    /\ invocations[1].pc = "returned"
    /\ invocations[1].ret = "true"
    /\ Len(invocations[1].requests) = 3
    /\ invocations[1].responses[1].kind = "invalid_json"
    /\ invocations[1].lastError # invocations[2].lastError
    /\ invocations[1].replies # invocations[2].replies

====
